---- MODULE Spec2Model ----
\* Task orchestration of the ffmpeg service: the submission path
\* (app/routers/tasks.py), the Redis queue and cache client
\* (app/services/redis_service.py), the Supabase record store client
\* (app/services/supabase_service.py), the worker dispatch loop (worker.py)
\* and the task executors (workers/processors.py).
EXTENDS Integers, Sequences, FiniteSets, TLC

\* ---------------------------------------------------------------- bounds
MaxTasks == 2
MaxConcurrentWorkers == 1
\* settings.max_file_size_bytes, in units of one byte
MaxFileSizeBytes == 2

TaskIds == 1..MaxTasks

\* ------------------------------------------------------- program constants
\* app/models/task.py: TaskType and TaskStatus
TaskType == {"caption", "merge", "background_music"}
QUEUED == "queued"
RUNNING == "running"
SUCCESS == "success"
FAILED == "failed"
TaskStatus == {QUEUED, RUNNING, SUCCESS, FAILED}

NoRecord == [status |-> "absent"]
None == "None"
\* the default of max_retries in download_file
MaxRetries == 3

VARIABLES
    nextId,          \* next id the record store assigns on insert
    rec,             \* the "tasks" table: task id -> row or NoRecord
    spc,             \* per task: what its submission request answered
    queue,           \* the Redis list ffmpeg:queue, head (left) first
    cache,           \* the Redis keys ffmpeg:task:<id>: task id -> JSON or None
    wpc,             \* position of worker_loop
    shutdown_event,  \* the asyncio.Event set by the signal handler
    semaphore,       \* free slots of the asyncio.Semaphore
    upc,             \* per task: position of its process_task unit
    utype,           \* per task: task_type the unit read from its envelope
    uerr,            \* per task: the error its unit or its executor logged
    dequeueError,    \* dequeue_task logged a failure in this iteration
    pushLog,         \* task ids in the order their lpush completed
    redis_client,    \* RedisService.redis_client: "None", "open", "lost", "closed"
    call,            \* the RedisService method a caller invoked last
    ret,             \* what that call gave back to its caller
    url_expires,     \* download_file: the Expires parameter of url, or None
    skip_size_check, \* download_file: its skip_size_check argument
    fpc,             \* position of download_file
    attempt,         \* download_file: the loop variable of the retry loop
    file_size,       \* the size check_file_size computed (0: unknown)
    size_header,     \* the header check_file_size read the size from
    downloaded_size, \* download_file: bytes counted in the current attempt
    output_file,     \* bytes of the file at output_path, NoFile when absent
    backoff,         \* the delays of the asyncio.sleep calls, in order
    responses,       \* what the server answered to each streaming GET
    last_error,      \* download_file: its local last_error
    error,           \* the exception download_file raised, or NoError
    cleanup,         \* position of run_all_cleanup
    old_tasks,       \* cleanup_old_videos: the tasks its loop has yet to see
    listdir,         \* the names the loop over os.listdir has yet to see
    video_output_dir, \* names of the files in settings.video_output_dir
    tempdir,         \* names of the entries of tempfile.gettempdir()
    completed_hours, \* per task: hours from completed_at to now
    mtime_hours,     \* per entry of tempdir: hours from its mtime to now
    cleanup_log,     \* the items whose except branch logged a failure
    removed,         \* the names os.remove and rmtree of the service removed
    disk_free,       \* bytes os.statvfs reports available for the output dir
    temp_dir,        \* per executor run: its local temp_dir, or Unbound
    output_path,     \* per executor run: its local output_path, or None
    temp_entries,    \* per executor run: what it has in the temp directory
    downloads,       \* per executor run: the download_file calls it started
    escaped          \* per executor run: the exception that left the executor

\* the variables of the worker, the submission path and their stores
wvars == <<nextId, rec, spc, queue, cache, wpc, shutdown_event, semaphore,
           upc, utype, uerr, dequeueError, pushLog>>
\* the variables of a RedisService call seen from its caller
cvars == <<call, ret>>
\* the variables of one download_file call
fvars == <<url_expires, skip_size_check, fpc, attempt, file_size,
           size_header,
           downloaded_size, output_file, backoff, responses, last_error,
           error>>
\* the variables of one run of run_all_cleanup and of the files it sees
svars == <<cleanup, old_tasks, listdir, video_output_dir, tempdir,
           completed_hours, mtime_hours, cleanup_log, removed>>
\* the locals of the executors and the files they work on
evars == <<disk_free, temp_dir, output_path, temp_entries, downloads,
           escaped>>
\* what the worker and the submission path leave alone
aux == <<cvars, fvars, svars, evars>>

vars == <<wvars, redis_client, cvars, fvars, svars, evars>>

\* ----------------------------------------------------------- conversions
\* str(task_id) and UUID(task_data["task_id"])
StrUUID(task_id) == ToString(task_id)
ParseUUID(s) == CHOOSE n \in TaskIds : ToString(n) = s

\* task_data = {"task_id": str(task_id), "task_type": task_type}
TaskData(task_id, task_type) ==
    [task_id |-> StrUUID(task_id), task_type |-> task_type]

\* json.dumps of the two-key dict: the sequence of its key/value pairs
JsonDumps(d) == << <<"task_id", d.task_id>>, <<"task_type", d.task_type>> >>

\* json.loads with task_type read from the wrong key
JsonLoadsWrongKey(j) ==
    [task_id |-> j[1][2], task_type |-> j[1][2]]

\* json.loads: the dict that maps every key of the text to its value
JsonValue(j, k) == (CHOOSE i \in 1..Len(j) : j[i][1] = k)
JsonLoads(j) ==
    [task_id |-> j[JsonValue(j, "task_id")][2],
     task_type |-> j[JsonValue(j, "task_type")][2]]

\* --------------------------------------------------------- record store
\* create_task: the inserted row
NewRow(task_type) ==
    [status |-> QUEUED, task_type |-> task_type, result_video_url |-> "",
     error_message |-> "", completed_at |-> FALSE]

\* update_task_status with completed_at written for every status
UpdatedRowAlwaysCompleted(row, status, result_video_url, error_message) ==
    [row EXCEPT
        !.status = status,
        !.result_video_url =
            IF result_video_url # "" THEN result_video_url ELSE @,
        !.error_message = IF error_message # "" THEN error_message ELSE @,
        !.completed_at = TRUE]

\* update_task_status: the row after the update built from the arguments;
\* a field is written only when its argument is truthy, completed_at only
\* for SUCCESS and FAILED
UpdatedRow(row, status, result_video_url, error_message) ==
    [row EXCEPT
        !.status = status,
        !.result_video_url =
            IF result_video_url # "" THEN result_video_url ELSE @,
        !.error_message = IF error_message # "" THEN error_message ELSE @,
        !.completed_at = IF status \in {SUCCESS, FAILED} THEN TRUE ELSE @]

\* update_task_status(task_id, ...): ok = FALSE is the except branch (the
\* update raised, nothing was written, False is returned and ignored)
UpdateTaskStatus(r, t, ok, status, result_video_url, error_message) ==
    IF ok /\ r[t] # NoRecord
    THEN [r EXCEPT ![t] =
            UpdatedRow(r[t], status, result_video_url, error_message)]
    ELSE r

\* result_url = f"{settings.railway_public_url}/video/{output_filename}"
ResultUrl(t) == "http://localhost:8000/video/" \o StrUUID(t) \o "_out.mp4"
\* error_msg = f"... task failed: {str(e)}"
ErrorMsg(e) == "task failed: " \o e

\* ------------------------------------------------------------------ Init
WorkerInit ==
    /\ nextId = 1
    /\ rec = [t \in TaskIds |-> NoRecord]
    /\ spc = [t \in TaskIds |-> "none"]
    /\ queue = << >>
    /\ cache = [t \in TaskIds |-> None]
    /\ wpc = "startup"
    /\ shutdown_event = FALSE
    /\ semaphore = 0
    /\ upc = [t \in TaskIds |-> "none"]
    /\ utype = [t \in TaskIds |-> None]
    /\ uerr = [t \in TaskIds |-> None]
    /\ dequeueError = FALSE
    /\ pushLog = << >>

\* what a RedisService call gives back: None, an int, a dict, or it raises
NoDict == [task_id |-> "", task_type |-> ""]
RetNone == [type |-> "None", int |-> 0, dict |-> NoDict]
RetInt(n) == [type |-> "int", int |-> n, dict |-> NoDict]
RetDict(d) == [type |-> "dict", int |-> 0, dict |-> d]
RetRaised == [type |-> "raised", int |-> 0, dict |-> NoDict]
RetBool(b) == [type |-> "bool", int |-> IF b THEN 1 ELSE 0, dict |-> NoDict]

\* no RedisService method was called yet
NoCall ==
    /\ call = None
    /\ ret = RetNone

\* the file at output_path does not exist
NoFile == 0 - 1

\* an exception: its class and its message
Exc(type, msg) == [type |-> type, msg |-> msg]
NoError == Exc("None", "")

\* no download_file call is under way
NoDownload ==
    /\ url_expires = None
    /\ skip_size_check = FALSE
    /\ fpc = "idle"
    /\ attempt = 0
    /\ file_size = 0
    /\ size_header = None
    /\ downloaded_size = 0
    /\ output_file = NoFile
    /\ backoff = << >>
    /\ responses = << >>
    /\ last_error = NoError
    /\ error = NoError

\* the entries of the temp directory the model follows: two working
\* directories of executors, a file an executor left there and a directory
\* of another program
TempItems == {"merge_1_a", "music_2_b", "ffmpeg_compose_c.txt", "pip-build"}

\* run_all_cleanup is not running and both directories are empty
NoCleanup ==
    /\ cleanup = "idle"
    /\ old_tasks = << >>
    /\ listdir = << >>
    /\ video_output_dir = {}
    /\ tempdir = {}
    /\ completed_hours = [t \in TaskIds |-> 0]
    /\ mtime_hours = [item \in TempItems |-> 0]
    /\ cleanup_log = {}
    /\ removed = {}

\* a local name the function has not assigned yet
Unbound == "unbound"

\* no executor has run: nothing of theirs is in the temp directory
NoExecutor ==
    /\ disk_free = 0
    /\ temp_dir = [t \in TaskIds |-> Unbound]
    /\ output_path = [t \in TaskIds |-> None]
    /\ temp_entries = [t \in TaskIds |-> {}]
    /\ downloads = [t \in TaskIds |-> 0]
    /\ escaped = [t \in TaskIds |-> None]

\* the API and the worker before startup: redis_client = None (__init__)
Init ==
    /\ WorkerInit
    /\ redis_client = None
    /\ NoCall
    /\ NoExecutor
    /\ NoDownload
    /\ NoCleanup

\* ------------------------------------------------------ submission path
\* the endpoint the n-th request arrives at: /tasks/caption, /tasks/merge
\* and /tasks/background-music in rotation
RequestType(n) ==
    CASE n % 3 = 1 -> "caption"
      [] n % 3 = 2 -> "merge"
      [] OTHER -> "background_music"

\* RPUSH in place of LPUSH: the new element becomes the tail
Rpush(q, v) == Append(q, v)

\* redis LPUSH: the new element becomes the head (left end) of the list
Lpush(q, v) == <<v>> \o q

\* the outcomes of one enqueue_task call: which redis command raised
EnqueueOutcome == {"ok", "lpush raised", "setex raised", "llen raised"}

\* enqueue_task: lpush(queue_key, json), setex(task_key, ttl, json), llen;
\* the first command that raises ends the call in the except branch, and
\* what the commands before it wrote stays written
EnqueueTask(task_id, task_type, outcome) ==
    LET task_json == JsonDumps(TaskData(task_id, task_type))
    IN /\ IF outcome # "lpush raised"
          THEN /\ queue' = Lpush(queue, task_json)
               /\ pushLog' = Append(pushLog, task_id)
          ELSE UNCHANGED <<queue, pushLog>>
       /\ IF outcome \in {"ok", "llen raised"}
          THEN cache' = [cache EXCEPT ![task_id] = task_json]
          ELSE UNCHANGED cache

\* enqueue_task returns True only when no command raised
EnqueueResult(outcome) == outcome = "ok"

\* create_caption_task, create_merge_task, create_background_music_task:
\* create_task inserts the row, enqueue_task pushes the envelope, and the
\* response is 201 or, when enqueue_task returned False, 500 (a create_task
\* that fails answers 500 and changes nothing)
CreateTask(task_type, outcome) ==
    /\ nextId <= MaxTasks
    /\ task_type = RequestType(nextId)
    /\ rec' = [rec EXCEPT ![nextId] = NewRow(task_type)]
    /\ EnqueueTask(nextId, task_type, outcome)
    /\ spc' = [spc EXCEPT
          ![nextId] = IF EnqueueResult(outcome) THEN "success" ELSE "failure"]
    /\ nextId' = nextId + 1
    /\ UNCHANGED <<wpc, shutdown_event, semaphore, upc, utype, uerr,
                   dequeueError>>
    /\ UNCHANGED <<redis_client, aux>>

\* --------------------------------------------------------- dispatch loop
\* a worker_loop whose loop follows the try block of the connects instead
\* of standing inside it: it is entered also after one of them raised
StartupEntersLoop(ok) ==
    /\ wpc = "startup"
    /\ wpc' = "loop"
    /\ IF ok
       THEN /\ semaphore' = MaxConcurrentWorkers
            /\ redis_client' = "open"
       ELSE /\ redis_client' \in {None, "open"}
            /\ UNCHANGED semaphore
    /\ UNCHANGED <<nextId, rec, spc, queue, cache, shutdown_event, upc,
                   utype, uerr, dequeueError, pushLog>>
    /\ UNCHANGED aux

\* worker_loop up to the loop: validate_config, connect, connect,
\* Semaphore(max_concurrent_workers); ok = FALSE is a raise in one of them,
\* which goes to the outer except and the finally: before from_url returned
\* (redis_client still None) or in the ping after it (redis_client assigned)
Startup(ok) ==
    /\ wpc = "startup"
    /\ IF ok
       THEN /\ semaphore' = MaxConcurrentWorkers
            /\ wpc' = "loop"
            /\ redis_client' = "open"
       ELSE /\ wpc' = "disconnect"
            /\ redis_client' \in {None, "open"}
            /\ UNCHANGED semaphore
    /\ UNCHANGED <<nextId, rec, spc, queue, cache, shutdown_event, upc,
                   utype, uerr, dequeueError, pushLog>>
    /\ UNCHANGED aux

\* signal_handler
SignalHandler ==
    /\ ~shutdown_event
    /\ wpc # "exited"
    /\ shutdown_event' = TRUE
    /\ UNCHANGED <<nextId, rec, spc, queue, cache, wpc, semaphore, upc,
                   utype, uerr, dequeueError, pushLog>>
    /\ UNCHANGED <<redis_client, aux>>

\* a loop test that does not read the flag: while True
LoopCheckIgnoresFlag ==
    /\ wpc = "loop"
    /\ wpc' = "brpop"
    /\ dequeueError' = FALSE
    /\ UNCHANGED <<nextId, rec, spc, queue, cache, shutdown_event, semaphore,
                   upc, utype, uerr, pushLog>>
    /\ UNCHANGED <<redis_client, aux>>

\* while not shutdown_event.is_set(): enter the iteration or leave the loop
LoopCheck ==
    /\ wpc = "loop"
    /\ wpc' = IF shutdown_event THEN "disconnect" ELSE "brpop"
    /\ dequeueError' = FALSE
    /\ UNCHANGED <<nextId, rec, spc, queue, cache, shutdown_event, semaphore,
                   upc, utype, uerr, pushLog>>
    /\ UNCHANGED <<redis_client, aux>>

\* redis BRPOP: the element at the tail (right end) and the rest
BrpopValue(q) == q[Len(q)]
BrpopRest(q) == SubSeq(q, 1, Len(q) - 1)

\* the loop awaiting process_task: no dequeue while a unit is in flight
DequeueTaskAwaited ==
    /\ wpc = "brpop"
    /\ queue # << >>
    /\ \A u \in TaskIds : upc[u] \notin {"launched", "gate", "inputs",
                                          "transform"}
    /\ LET task_data == JsonLoads(BrpopValue(queue))
           t == ParseUUID(task_data.task_id)
       IN /\ queue' = BrpopRest(queue)
          /\ upc' = [upc EXCEPT ![t] = "launched"]
          /\ utype' = [utype EXCEPT ![t] = task_data.task_type]
    /\ dequeueError' = FALSE
    /\ wpc' = "loop"
    /\ UNCHANGED <<nextId, rec, spc, cache, shutdown_event, semaphore, uerr,
                   pushLog>>
    /\ UNCHANGED <<redis_client, aux>>

\* a dequeue that reads the tail with LINDEX and leaves it in the list
DequeueTaskKeepsEnvelope ==
    /\ wpc = "brpop"
    /\ queue # << >>
    /\ LET task_data == JsonLoads(BrpopValue(queue))
           t == ParseUUID(task_data.task_id)
       IN /\ upc' = [upc EXCEPT ![t] = "launched"]
          /\ utype' = [utype EXCEPT ![t] = task_data.task_type]
    /\ dequeueError' = FALSE
    /\ wpc' = "loop"
    /\ UNCHANGED <<nextId, rec, spc, queue, cache, shutdown_event, semaphore,
                   uerr, pushLog>>
    /\ UNCHANGED <<redis_client, aux>>

\* dequeue_task returned an envelope; asyncio.create_task(process_task(..))
DequeueTask ==
    /\ wpc = "brpop"
    /\ queue # << >>
    /\ LET task_data == JsonLoads(BrpopValue(queue))
           t == ParseUUID(task_data.task_id)
       IN /\ queue' = BrpopRest(queue)
          /\ upc' = [upc EXCEPT ![t] = "launched"]
          /\ utype' = [utype EXCEPT ![t] = task_data.task_type]
    /\ dequeueError' = FALSE
    /\ wpc' = "loop"
    /\ UNCHANGED <<nextId, rec, spc, cache, shutdown_event, semaphore, uerr,
                   pushLog>>
    /\ UNCHANGED <<redis_client, aux>>

\* dequeue_task: brpop timed out on the empty list, None; sleep(0.1)
DequeueTimeout ==
    /\ wpc = "brpop"
    /\ queue = << >>
    /\ dequeueError' = FALSE
    /\ wpc' = "loop"
    /\ UNCHANGED <<nextId, rec, spc, queue, cache, shutdown_event, semaphore,
                   upc, utype, uerr, pushLog>>
    /\ UNCHANGED <<redis_client, aux>>

\* dequeue_task without its except branch: the error leaves the loop
DequeueErrorEscapes ==
    /\ wpc = "brpop"
    /\ dequeueError' = TRUE
    /\ wpc' = "disconnect"
    /\ UNCHANGED <<nextId, rec, spc, queue, cache, shutdown_event, semaphore,
                   upc, utype, uerr, pushLog>>
    /\ UNCHANGED <<redis_client, aux>>

\* dequeue_task: brpop raised; the except branch logs and returns None,
\* the loop sleeps and goes on
DequeueError ==
    /\ wpc = "brpop"
    /\ dequeueError' = TRUE
    /\ wpc' = "loop"
    /\ UNCHANGED <<nextId, rec, spc, queue, cache, shutdown_event, semaphore,
                   upc, utype, uerr, pushLog>>
    /\ UNCHANGED <<redis_client, aux>>

\* ------------------------------------------------------- process_task
\* positions of a unit that holds a gate slot (inside "async with semaphore")
InsideGate == {"inputs", "transform"}
\* positions of a unit that was launched and has not ended
InFlight == {"launched", "gate"} \cup InsideGate

\* RedisService.disconnect: if self.redis_client: await close()
Closed(client) == IF client # None THEN "closed" ELSE client

\* finally: redis_service.disconnect(); worker_loop returns and asyncio.run
\* cancels the units still pending: CancelledError is no Exception, so no
\* executor writes a status, and "async with" releases the slots held
Disconnect ==
    /\ wpc = "disconnect"
    /\ wpc' = "exited"
    /\ redis_client' = Closed(redis_client)
    /\ upc' = [t \in TaskIds |->
                 IF upc[t] \in InFlight THEN "cancelled" ELSE upc[t]]
    /\ semaphore' =
         semaphore + Cardinality({t \in TaskIds : upc[t] \in InsideGate})
    /\ UNCHANGED <<nextId, rec, spc, queue, cache, shutdown_event, utype,
                   uerr, dequeueError, pushLog>>
    /\ UNCHANGED aux

\* ---------------------------------------------------------- executors
\* except Exception as e: update_task_status(task_id, FAILED,
\* error_message=error_msg); finally: cleanup; the slot is released
ExecutorFails(t, e, ok) ==
    /\ rec' = UpdateTaskStatus(rec, t, ok, FAILED, "", ErrorMsg(e))
    /\ uerr' = [uerr EXCEPT ![t] = e]
    /\ upc' = [upc EXCEPT ![t] = "done"]
    /\ semaphore' = semaphore + 1

\* update_task_status(task_id, SUCCESS, result_video_url=result_url, ..);
\* finally: cleanup; the slot is released
ExecutorSucceeds(t, ok) ==
    /\ rec' = UpdateTaskStatus(rec, t, ok, SUCCESS, ResultUrl(t), "")
    /\ upc' = [upc EXCEPT ![t] = "done"]
    /\ semaphore' = semaphore + 1
    /\ UNCHANGED uerr

\* a gate that admits every unit
SlotAlwaysFree == TRUE

\* asyncio.Semaphore: acquire returns at once when a slot is free
SlotFree == semaphore > 0

\* a dispatch whose else branch runs an executor: every task type enters
EnterGateAnyType(t, ok) ==
    /\ semaphore' = semaphore - 1
    /\ rec' = UpdateTaskStatus(rec, t, ok, RUNNING, "", "")
    /\ upc' = [upc EXCEPT ![t] = "inputs"]

\* inside "async with semaphore": the executor of the task type starts with
\* update_task_status(task_id, RUNNING) and runs up to its first download;
\* an unknown task type is logged and the slot released
EnterGate(t, ok) ==
    IF utype[t] \in TaskType
    THEN /\ semaphore' = semaphore - 1
         /\ rec' = UpdateTaskStatus(rec, t, ok, RUNNING, "", "")
         /\ upc' = [upc EXCEPT ![t] = "inputs"]
    ELSE /\ upc' = [upc EXCEPT ![t] = "done"]
         /\ UNCHANGED <<semaphore, rec>>

\* the error process_task logs when get_task returned None
NotFound == "not found in database"

\* process_task without the return after the log: the unit goes on to the
\* gate although get_task returned None
ProcessTaskNoReturn(t, found, ok) ==
    /\ upc[t] = "launched"
    /\ uerr' = [uerr EXCEPT
          ![t] = IF ~(found /\ rec[t] # NoRecord) THEN NotFound ELSE @]
    /\ IF SlotFree
       THEN EnterGate(t, ok)
       ELSE /\ upc' = [upc EXCEPT ![t] = "gate"]
            /\ UNCHANGED <<semaphore, rec>>
    /\ UNCHANGED <<nextId, spc, queue, cache, wpc, shutdown_event, utype,
                   dequeueError, pushLog>>
    /\ UNCHANGED <<redis_client, aux>>

\* process_task, first run of the unit: supabase_service.get_task; when the
\* row is absent or the select raised (get_task returns None) log and
\* return; else "async with semaphore": enter, or wait while no slot is free
ProcessTask(t, found, ok) ==
    /\ upc[t] = "launched"
    /\ IF ~(found /\ rec[t] # NoRecord)
       THEN /\ upc' = [upc EXCEPT ![t] = "dropped"]
            /\ uerr' = [uerr EXCEPT ![t] = NotFound]
            /\ UNCHANGED <<semaphore, rec>>
       ELSE /\ UNCHANGED uerr
            /\ IF SlotFree
               THEN EnterGate(t, ok)
               ELSE /\ upc' = [upc EXCEPT ![t] = "gate"]
                    /\ UNCHANGED <<semaphore, rec>>
    /\ UNCHANGED <<nextId, spc, queue, cache, wpc, shutdown_event, utype,
                   dequeueError, pushLog>>
    /\ UNCHANGED <<redis_client, aux>>

\* a unit waiting in semaphore.acquire is woken when a slot is free
Acquire(t, ok) ==
    /\ upc[t] = "gate"
    /\ SlotFree
    /\ EnterGate(t, ok)
    /\ UNCHANGED <<nextId, spc, queue, cache, wpc, shutdown_event, utype,
                   uerr, dequeueError, pushLog>>
    /\ UNCHANGED <<redis_client, aux>>

\* the outcomes of the input phase: check_disk_space, then download_file
InputOutcome == {"ok", "DownloadError"}

\* check_disk_space and the downloads of the inputs return, or one of them
\* raises into the executor's except branch
FetchInputs(t, outcome, ok) ==
    /\ upc[t] = "inputs"
    /\ IF outcome = "ok"
       THEN /\ upc' = [upc EXCEPT ![t] = "transform"]
            /\ UNCHANGED <<rec, uerr, semaphore>>
       ELSE ExecutorFails(t, outcome, ok)
    /\ UNCHANGED <<nextId, spc, queue, cache, wpc, shutdown_event, utype,
                   dequeueError, pushLog>>
    /\ UNCHANGED <<redis_client, aux>>

\* the outcomes of the external transformation (whisper, ffmpeg)
TransformOutcome == {"ok", "FFmpegError"}

\* the external transformation returns and the executor writes SUCCESS, or
\* it raises into the executor's except branch
Transform(t, outcome, ok) ==
    /\ upc[t] = "transform"
    /\ IF outcome = "ok"
       THEN ExecutorSucceeds(t, ok)
       ELSE ExecutorFails(t, outcome, ok)
    /\ UNCHANGED <<nextId, spc, queue, cache, wpc, shutdown_event, utype,
                   dequeueError, pushLog>>
    /\ UNCHANGED <<redis_client, aux>>

\* ------------------------------------------------------------------ Next
Next ==
    \/ \E ty \in TaskType, o \in EnqueueOutcome : CreateTask(ty, o)
    \/ \E ok \in BOOLEAN : Startup(ok)
    \/ SignalHandler
    \/ LoopCheck
    \/ DequeueTask
    \/ DequeueTimeout
    \/ DequeueError
    \/ Disconnect
    \/ \E t \in TaskIds, found \in BOOLEAN, ok \in BOOLEAN :
          ProcessTask(t, found, ok)
    \/ \E t \in TaskIds, ok \in BOOLEAN : Acquire(t, ok)
    \/ \E t \in TaskIds, o \in InputOutcome, ok \in BOOLEAN :
          FetchInputs(t, o, ok)
    \/ \E t \in TaskIds, o \in TransformOutcome, ok \in BOOLEAN :
          Transform(t, o, ok)

Spec == Init /\ [][Next]_vars

\* ------------------------------------------------- one process_task unit
\* a task_type string that is no value of TaskType
UnknownType == "thumbnail"

\* process_task(task_data) for every envelope the loop handed over: the
\* task_type is what the envelope says, known or not, and the row of the
\* task is in the table or absent
UnitInit ==
    /\ nextId = MaxTasks + 1
    /\ \E absent \in SUBSET TaskIds :
          rec = [t \in TaskIds |->
                   IF t \in absent THEN NoRecord ELSE NewRow(RequestType(t))]
    /\ spc = [t \in TaskIds |-> "success"]
    /\ queue = << >>
    /\ cache = [t \in TaskIds |-> None]
    /\ wpc = "loop"
    /\ shutdown_event = FALSE
    /\ semaphore = MaxConcurrentWorkers
    /\ upc = [t \in TaskIds |-> "launched"]
    /\ utype \in [TaskIds -> TaskType \cup {UnknownType}]
    /\ uerr = [t \in TaskIds |-> None]
    /\ dequeueError = FALSE
    /\ pushLog = << >>
    /\ redis_client = "open"
    /\ NoCall
    /\ NoExecutor
    /\ NoDownload
    /\ NoCleanup

UnitNext ==
    \/ \E t \in TaskIds, found \in BOOLEAN, ok \in BOOLEAN :
          ProcessTask(t, found, ok)
    \/ \E t \in TaskIds, ok \in BOOLEAN : Acquire(t, ok)
    \/ \E t \in TaskIds, o \in InputOutcome, ok \in BOOLEAN :
          FetchInputs(t, o, ok)
    \/ \E t \in TaskIds, o \in TransformOutcome, ok \in BOOLEAN :
          Transform(t, o, ok)

UnitSpec == UnitInit /\ [][UnitNext]_vars

\* --------------------------------------------- RedisService, call by call
\* the envelopes enqueue_task can have pushed
Envelopes == {JsonDumps(TaskData(t, ty)) : t \in TaskIds, ty \in TaskType}

\* the contents ffmpeg:queue can have: at most one envelope per task id
QueueContents ==
    {q \in UNION {[1..n -> Envelopes] : n \in 0..MaxTasks} :
        \A i, j \in 1..Len(q) :
            JsonLoads(q[i]).task_id = JsonLoads(q[j]).task_id => i = j}

\* a command on self.redis_client raises when the client is None
\* (AttributeError) or its connection is lost (ConnectionError)
CommandRaises(client) == client # "open"

\* a RedisService whose client is None (never connected), open, or has lost
\* its connection, on the list ffmpeg:queue as other clients left it
ClientInit ==
    /\ nextId = MaxTasks + 1
    /\ rec = [t \in TaskIds |-> NewRow(RequestType(t))]
    /\ spc = [t \in TaskIds |-> "success"]
    /\ queue \in QueueContents
    /\ cache = [t \in TaskIds |-> None]
    /\ wpc = "startup"
    /\ shutdown_event = FALSE
    /\ semaphore = 0
    /\ upc = [t \in TaskIds |-> "none"]
    /\ utype = [t \in TaskIds |-> None]
    /\ uerr = [t \in TaskIds |-> None]
    /\ dequeueError = FALSE
    /\ pushLog = << >>
    /\ redis_client \in {None, "open", "lost"}
    /\ NoCall
    /\ NoExecutor
    /\ NoDownload
    /\ NoCleanup

ConnectOutcome == {"ok", "from_url raised", "ping raised"}

\* RedisService.connect: from_url assigns the client, ping checks it; an
\* error is logged and raised again
Connect(outcome) ==
    /\ redis_client = None
    /\ redis_client' = CASE outcome = "ok" -> "open"
                          [] outcome = "from_url raised" -> None
                          [] OTHER -> "lost"
    /\ call' = "connect"
    /\ ret' = IF outcome = "ok" THEN RetNone ELSE RetRaised
    /\ UNCHANGED <<wvars, fvars, svars, evars>>

\* get_queue_length without its except branch
GetQueueLengthNoExcept ==
    /\ call' = "get_queue_length"
    /\ ret' = IF CommandRaises(redis_client)
              THEN RetRaised
              ELSE RetInt(Len(queue))
    /\ UNCHANGED <<wvars, redis_client, fvars, svars, evars>>

\* RedisService.get_queue_length: llen(queue_key), and 0 from the except
\* branch when the command raised
GetQueueLength ==
    /\ call' = "get_queue_length"
    /\ ret' = IF CommandRaises(redis_client)
              THEN RetInt(0)
              ELSE RetInt(Len(queue))
    /\ UNCHANGED <<wvars, redis_client, fvars, svars, evars>>

\* dequeue_task over a brpop that raises at its timeout, without the except
DequeueTaskCallTimeoutRaises ==
    /\ call' = "dequeue_task"
    /\ IF CommandRaises(redis_client) \/ queue = << >>
       THEN /\ ret' = RetRaised
            /\ UNCHANGED queue
       ELSE /\ ret' = RetDict(JsonLoads(BrpopValue(queue)))
            /\ queue' = BrpopRest(queue)
    /\ UNCHANGED <<nextId, rec, spc, cache, wpc, shutdown_event, semaphore,
                   upc, utype, uerr, dequeueError, pushLog>>
    /\ UNCHANGED <<redis_client, fvars, svars, evars>>

\* RedisService.dequeue_task(timeout): brpop gives the tail element, or
\* None when the list stayed empty for the timeout; None from the except
\* branch when the command raised
DequeueTaskCall ==
    /\ call' = "dequeue_task"
    /\ IF CommandRaises(redis_client) \/ queue = << >>
       THEN /\ ret' = RetNone
            /\ UNCHANGED queue
       ELSE /\ ret' = RetDict(JsonLoads(BrpopValue(queue)))
            /\ queue' = BrpopRest(queue)
    /\ UNCHANGED <<nextId, rec, spc, cache, wpc, shutdown_event, semaphore,
                   upc, utype, uerr, dequeueError, pushLog>>
    /\ UNCHANGED <<redis_client, fvars, svars, evars>>

ClientNext ==
    \/ \E o \in ConnectOutcome : Connect(o)
    \/ GetQueueLength
    \/ DequeueTaskCall

ClientSpec == ClientInit /\ [][ClientNext]_vars

\* ------------------------------------------------- utils/file_utils.py
\* datetime.now().timestamp() at the time of the call
Now == 2
\* the bytes a server sends in one body, at most
MaxBody == MaxFileSizeBytes + 2
\* the bytes of one chunk of aiter_bytes, at most
ChunkSize == 2

\* the status of a response; NoResponse is httpx.RequestError (the request
\* got no response: connect error, timeout, connection reset)
NoResponse == 0
Statuses == {NoResponse, 200, 400, 403, 404, 405, 500}
\* raise_for_status passes 2xx
StatusOk(status_code) == status_code \in 200..299

\* a size header that the response does not carry
NoHeader == 0 - 1
HeaderSizes == {NoHeader, 1, MaxFileSizeBytes + 1}
\* the responses to the HEAD request and to the GET with "Range: bytes=0-1"
ProbeResponses ==
    [status : Statuses, content_length : HeaderSizes,
     content_range : HeaderSizes]

\* what check_file_size does: it returns size, or raises
Returns(size) == [raises |-> "None", size |-> size]
Raises(type, size) == [raises |-> type, size |-> size]

\* content-length, else content-range, and a file of unknown size counted
\* as one over the limit
HeaderSizeUnknownOverLimit(response) ==
    IF response.content_length # NoHeader
    THEN response.content_length
    ELSE IF response.content_range # NoHeader
         THEN response.content_range
         ELSE MaxFileSizeBytes + 1

\* content-length, else the total of content-range, else 0
HeaderSize(response) ==
    IF response.content_length # NoHeader
    THEN response.content_length
    ELSE IF response.content_range # NoHeader
         THEN response.content_range
         ELSE 0

\* check_file_size without the comparison against the limit
SizeWithinLimitUnchecked(response) == Returns(HeaderSize(response))

\* if file_size > settings.max_file_size_bytes: raise FileSizeLimitExceeded
SizeWithinLimit(response) ==
    IF HeaderSize(response) > MaxFileSizeBytes
    THEN Raises("FileSizeLimitExceeded", HeaderSize(response))
    ELSE Returns(HeaderSize(response))

\* the header of a response that HeaderSize reads: content-length, else
\* content-range, else none of the two
HeaderRead(response) ==
    IF response.content_length # NoHeader
    THEN "content-length"
    ELSE IF response.content_range # NoHeader
         THEN "content-range"
         ELSE "missing"

\* the header check_file_size took the size from; None when no request of
\* the probe was answered with success
SizeHeader(head, range) ==
    CASE StatusOk(head.status) -> HeaderRead(head)
      [] head.status \in {403, 405} /\ StatusOk(range.status) ->
            HeaderRead(range)
      [] OTHER -> None

\* check_file_size(url): HEAD; on 405 or 403 a GET with a two-byte range,
\* and 0 when that fails too; 404 raises DownloadError; any other HTTP
\* error and any RequestError give 0
CheckFileSize(head, range) ==
    CASE StatusOk(head.status) -> SizeWithinLimit(head)
      [] head.status \in {403, 405} ->
            IF StatusOk(range.status) THEN SizeWithinLimit(range)
                                      ELSE Returns(0)
      [] head.status = 404 -> Raises("DownloadError", 0)
      [] OTHER -> Returns(0)

\* the values of the Expires query parameter of url; None: no parameter
ExpiresParams == {None, "1", "2", "3", "soon"}

\* int(params['Expires'][0]): the decimal numeral read as a number;
\* ValueError for anything else
IsNumeral(s) == \E n \in 0..9 : ToString(n) = s
IntOf(s) == CHOOSE n \in 0..9 : ToString(n) = s

\* expires_datetime.strftime('%Y-%m-%d %H:%M:%S')
Strftime(timestamp) == "1970-01-01 00:00:0" \o ToString(timestamp)

\* the comparison of check_url_expiration turned round
IsExpiredReversed(current_timestamp, expires_timestamp) ==
    current_timestamp < expires_timestamp

\* is_expired = current_timestamp > expires_timestamp
IsExpired(current_timestamp, expires_timestamp) ==
    current_timestamp > expires_timestamp

\* check_url_expiration(url): (is_expired, expiration_info)
CheckUrlExpiration(expires) ==
    IF expires = None
    THEN [is_expired |-> FALSE, info |-> "No expiration detected"]
    ELSE IF ~IsNumeral(expires)
         THEN [is_expired |-> FALSE, info |-> None]
         ELSE IF IsExpired(Now, IntOf(expires))
              THEN [is_expired |-> TRUE,
                    info |-> "URL expired on " \o Strftime(IntOf(expires))
                             \o " UTC"]
              ELSE [is_expired |-> FALSE,
                    info |-> "URL valid for "
                             \o ToString((IntOf(expires) - Now) \div 3600)
                             \o " more hours"]

\* the messages of the exceptions download_file raises
ExpiredMsg(expiry_info) ==
    "Access denied (403 Forbidden). The URL has expired. " \o expiry_info
    \o ". Please generate a new pre-signed URL."
DeniedMsg == "Access denied (403 Forbidden). The URL may require special authentication"
NotFoundMsg == "File not found (404). Please verify the URL is correct."
HttpErrorMsg == "HTTP error during download"
ServerErrorMsg == "Server error, retrying..."
DeniedRetryMsg == "Access denied (403), retrying..."
NetworkErrorMsg == "Network error"
FailedMsg == "Download failed"
TooLargeMsg == "Download exceeded size limit"
ProbeTooLargeMsg == "File size exceeds limit"

\* a backoff that grows by two seconds per attempt
BackoffLinear(n) == 2 * n

\* await asyncio.sleep(2 ** attempt)
Backoff(n) == 2 ^ n

\* the streaming check with the comparison left out
OverLimitNever(size) == FALSE

\* the streaming check with a limit one byte too high
OverLimitOffByOne(size) == size > MaxFileSizeBytes + 1

\* if downloaded_size > settings.max_file_size_bytes
OverLimit(size) == size > MaxFileSizeBytes

\* the except branch with 404 handled like a network error
OnHttpStatusErrorRetry404(status_code, is_expired) ==
    CASE status_code = 403 ->
            IF is_expired THEN "raise" ELSE "retry unless last"
      [] status_code = 404 -> "retry unless last"
      [] status_code >= 500 -> "retry"
      [] OTHER -> "raise"

\* except httpx.HTTPStatusError: what the branch of the status code does:
\* raise at once, sleep and continue, or sleep and continue unless this
\* was the last attempt
OnHttpStatusError(status_code, is_expired) ==
    CASE status_code = 403 ->
            IF is_expired THEN "raise" ELSE "retry unless last"
      [] status_code = 404 -> "raise"
      [] status_code >= 500 -> "retry"
      [] OTHER -> "raise"

\* the exception the branch of the status code raises when it raises
StatusError(status_code, expiration) ==
    CASE status_code = 403 /\ expiration.is_expired ->
            Exc("DownloadError", ExpiredMsg(expiration.info))
      [] status_code = 403 -> Exc("DownloadError", DeniedMsg)
      [] status_code = 404 -> Exc("DownloadError", NotFoundMsg)
      [] OTHER -> Exc("DownloadError", HttpErrorMsg)

\* raise: download_file ends with the exception
Raise(e) ==
    /\ fpc' = "raised"
    /\ error' = e
    /\ UNCHANGED <<attempt, backoff>>

\* the retry that sleeps the delay of the attempt to come
RetryWaitsNextDelay ==
    /\ fpc' = "for"
    /\ attempt' = attempt + 1
    /\ backoff' = Append(backoff, Backoff(attempt + 1))
    /\ UNCHANGED error

\* await asyncio.sleep(2 ** attempt); continue
Retry ==
    /\ fpc' = "for"
    /\ attempt' = attempt + 1
    /\ backoff' = Append(backoff, Backoff(attempt))
    /\ UNCHANGED error

\* the end of a failed attempt with the last retry left out
FailOneAttemptEarly(verdict, retry_error, final_error) ==
    CASE verdict = "raise" -> Raise(final_error) /\ UNCHANGED last_error
      [] verdict = "retry" -> Retry /\ last_error' = retry_error
      [] OTHER ->
            /\ last_error' = retry_error
            /\ IF attempt < MaxRetries - 2 THEN Retry ELSE Raise(final_error)

\* the end of a failed attempt
Fail(verdict, retry_error, final_error) ==
    CASE verdict = "raise" -> Raise(final_error) /\ UNCHANGED last_error
      [] verdict = "retry" -> Retry /\ last_error' = retry_error
      [] OTHER ->
            /\ last_error' = retry_error
            /\ IF attempt < MaxRetries - 1 THEN Retry ELSE Raise(final_error)

\* the entry of responses for the attempt under way, with its body marked
MarkBody(body) == [responses EXCEPT ![Len(responses)].body = body]

\* download_file(url, output_path, skip_size_check) is called
FetchInit ==
    /\ WorkerInit
    /\ redis_client = None
    /\ NoCall
    /\ NoExecutor
    /\ url_expires \in ExpiresParams
    /\ skip_size_check \in BOOLEAN
    /\ fpc = "for"
    /\ attempt = 0
    /\ file_size = 0
    /\ size_header = None
    /\ downloaded_size = 0
    /\ output_file = NoFile
    /\ backoff = << >>
    /\ responses = << >>
    /\ last_error = NoError
    /\ error = NoError
    /\ NoCleanup

\* first attempt: file_size = await check_file_size(url); DownloadError is
\* caught (file_size = 0), FileSizeLimitExceeded goes to "except
\* FileSizeLimitExceeded: raise"
ForSizeCheck(head, range) ==
    /\ fpc = "for"
    /\ attempt = 0
    /\ ~skip_size_check
    /\ LET checked == CheckFileSize(head, range)
       IN /\ file_size' = checked.size
          /\ IF checked.raises = "FileSizeLimitExceeded"
             THEN Raise(Exc("FileSizeLimitExceeded", ProbeTooLargeMsg))
             ELSE /\ fpc' = "get"
                  /\ UNCHANGED <<attempt, backoff, error>>
    /\ size_header' = SizeHeader(head, range)
    /\ UNCHANGED <<url_expires, skip_size_check, downloaded_size,
                   output_file, responses, last_error>>
    /\ UNCHANGED <<wvars, redis_client, cvars, svars, evars>>

\* later attempts and skip_size_check: file_size = 0
ForNoSizeCheck ==
    /\ fpc = "for"
    /\ attempt < MaxRetries
    /\ skip_size_check \/ attempt # 0
    /\ file_size' = 0
    /\ fpc' = "get"
    /\ UNCHANGED <<url_expires, skip_size_check, size_header, attempt, downloaded_size,
                   output_file, backoff, responses, last_error, error>>
    /\ UNCHANGED <<wvars, redis_client, cvars, svars, evars>>

\* the for loop ran out: raise last_error or DownloadError(...)
ForExhausted ==
    /\ fpc = "for"
    /\ attempt = MaxRetries
    /\ Raise(IF last_error # NoError
             THEN last_error
             ELSE Exc("DownloadError", FailedMsg))
    /\ UNCHANGED <<url_expires, skip_size_check, size_header, file_size, downloaded_size,
                   output_file, responses, last_error>>
    /\ UNCHANGED <<wvars, redis_client, cvars, svars, evars>>

\* client.stream("GET", url) and raise_for_status: on 2xx open(output_path,
\* "wb") and start reading; else the except branch of the error
StreamGet(status_code) ==
    /\ fpc = "get"
    /\ responses' = Append(responses,
          [status |-> status_code,
           body |-> IF StatusOk(status_code) THEN "streaming" ELSE "none"])
    /\ IF StatusOk(status_code)
       THEN /\ fpc' = "body"
            /\ downloaded_size' = 0
            /\ output_file' = 0
            /\ UNCHANGED <<attempt, backoff, last_error, error>>
       ELSE /\ UNCHANGED <<downloaded_size, output_file>>
            /\ IF status_code = NoResponse
               THEN Fail("retry unless last",
                         Exc("DownloadError", NetworkErrorMsg),
                         Exc("DownloadError", NetworkErrorMsg))
               ELSE LET expiration == CheckUrlExpiration(url_expires)
                    IN Fail(OnHttpStatusError(status_code,
                                              expiration.is_expired),
                            Exc("DownloadError",
                                IF status_code = 403 THEN DeniedRetryMsg
                                                     ELSE ServerErrorMsg),
                            StatusError(status_code, expiration))
    /\ UNCHANGED <<url_expires, skip_size_check, size_header, file_size>>
    /\ UNCHANGED <<wvars, redis_client, cvars, svars, evars>>

\* one chunk of aiter_bytes: f.write(chunk); downloaded_size += len(chunk);
\* over the limit: os.remove(output_path), raise FileSizeLimitExceeded
Chunk(n) ==
    /\ fpc = "body"
    /\ downloaded_size + n <= MaxBody
    /\ downloaded_size' = downloaded_size + n
    /\ IF OverLimit(downloaded_size + n)
       THEN /\ output_file' = NoFile
            /\ responses' = MarkBody("too large")
            /\ Raise(Exc("FileSizeLimitExceeded", TooLargeMsg))
       ELSE /\ output_file' = output_file + n
            /\ UNCHANGED <<fpc, attempt, backoff, responses, error>>
    /\ UNCHANGED <<url_expires, skip_size_check, size_header, file_size, last_error>>
    /\ UNCHANGED <<wvars, redis_client, cvars, svars, evars>>

\* the body ended: actual_size = os.path.getsize(output_path); return
BodyEnd ==
    /\ fpc = "body"
    /\ fpc' = "returned"
    /\ responses' = MarkBody("complete")
    /\ UNCHANGED <<url_expires, skip_size_check, size_header, attempt, file_size,
                   downloaded_size, output_file, backoff, last_error, error>>
    /\ UNCHANGED <<wvars, redis_client, cvars, svars, evars>>

\* aiter_bytes raised httpx.RequestError (read error, read timeout): the
\* except branch of RequestError leaves the file as it is
BodyInterrupted ==
    /\ fpc = "body"
    /\ responses' = MarkBody("interrupted")
    /\ Fail("retry unless last", Exc("DownloadError", NetworkErrorMsg),
            Exc("DownloadError", NetworkErrorMsg))
    /\ UNCHANGED <<url_expires, skip_size_check, size_header, file_size, downloaded_size,
                   output_file>>
    /\ UNCHANGED <<wvars, redis_client, cvars, svars, evars>>

\* f.write raised (OSError): except Exception removes the file
BodyWriteFails ==
    /\ fpc = "body"
    /\ responses' = MarkBody("write failed")
    /\ output_file' = NoFile
    /\ Fail("retry unless last", Exc("DownloadError", FailedMsg),
            Exc("DownloadError", FailedMsg))
    /\ UNCHANGED <<url_expires, skip_size_check, size_header, file_size, downloaded_size>>
    /\ UNCHANGED <<wvars, redis_client, cvars, svars, evars>>

FetchNext ==
    \/ \E head \in ProbeResponses, range \in ProbeResponses :
          ForSizeCheck(head, range)
    \/ ForNoSizeCheck
    \/ ForExhausted
    \/ \E status_code \in Statuses : StreamGet(status_code)
    \/ \E n \in 1..ChunkSize : Chunk(n)
    \/ BodyEnd
    \/ BodyInterrupted
    \/ BodyWriteFails

FetchSpec == FetchInit /\ [][FetchNext]_vars

\* every await of download_file ends: the requests run under
\* httpx.Timeout(connect, read, write, pool) and asyncio.sleep is finite,
\* so a call that can take a step takes one
FetchFairSpec == FetchSpec /\ WF_vars(FetchNext)

\* ------------------------------------------------------- cleanup service
\* settings.task_ttl_hours, the default of TASK_TTL_HOURS
TaskTtlHours == 2
\* if age_hours > 3
StaleHours == 3

\* output_filename = f"{task_id}_merged.mp4" and its like, as in ResultUrl
OutputFilename(t) == StrUUID(t) \o "_out.mp4"

\* the names a file of the output directory can have, in listing order
VideoNames == [i \in 1..MaxTasks |-> OutputFilename(i)] \o <<"cover.jpg">>
\* the names of the entries of the temp directory, in listing order
TempNames ==
    <<"merge_1_a", "music_2_b", "ffmpeg_compose_c.txt", "pip-build">>

\* result_url.split("/")[-1] taken for the first name of the directory
LastSegmentFirst(result_url) == 1

\* result_url.split("/")[-1]
LastSegment(result_url) ==
    CHOOSE i \in 1..Len(VideoNames) :
        result_url = "http://localhost:8000/video/" \o VideoNames[i]

\* filename.endswith(".mp4")
EndsWithMp4(filename) ==
    \E t \in TaskIds : filename = StrUUID(t) \o "_out" \o ".mp4"

\* filename.split("_")[0]
FirstField(filename) ==
    CHOOSE task_id \in {StrUUID(t) : t \in TaskIds} :
        filename = task_id \o "_" \o "out.mp4"

\* item.startswith(("merge_", "music_", "ffmpeg_compose_"))
StartsWithPrefix(item) ==
    \E prefix \in {"merge_", "music_", "ffmpeg_compose_"},
       rest \in {"1_a", "2_b", "c.txt"} : item = prefix \o rest

\* os.path.isdir(item_path) of an entry that is there
IsDir(item) == item \in {"merge_1_a", "music_2_b", "pip-build"}

\* the rows with status success or failed
TerminalTasks(r) ==
    {t \in TaskIds : r[t] # NoRecord /\ r[t].status \in {SUCCESS, FAILED}}

\* the database function get_old_tasks(hours_old): the terminal tasks whose
\* completed_at lies hours_old hours or more in the past
RpcGetOldTasks(r, completed, hours_old) ==
    {t \in TerminalTasks(r) : completed[t] >= hours_old}

\* how the two queries of get_old_tasks can end: the RPC answers; the RPC
\* raises and the select answers; both raise
ListingOutcomes == {"rpc", "select", "raised"}

\* get_old_tasks with the age of the task compared in the select as well
GetOldTasksFiltered(r, completed, hours, outcome) ==
    CASE outcome = "rpc" -> RpcGetOldTasks(r, completed, hours)
      [] outcome = "select" ->
            {t \in TerminalTasks(r) : completed[t] >= hours}
      [] OTHER -> {}

\* SupabaseService.get_old_tasks(hours): the result of the RPC; when it
\* raises, every row with status success or failed; when that raises, []
GetOldTasks(r, completed, hours, outcome) ==
    CASE outcome = "rpc" -> RpcGetOldTasks(r, completed, hours)
      [] outcome = "select" -> TerminalTasks(r)
      [] OTHER -> {}

\* get_task that gives the row also when the select raised
GetTaskRowAlways(r, task_id, ok) == r[ParseUUID(task_id)]

\* SupabaseService.get_task(task_id): the row, or None (NoRecord) when
\* there is none and when the select raised
GetTaskRow(r, task_id, ok) ==
    IF ok THEN r[ParseUUID(task_id)] ELSE NoRecord

\* age_hours > 3 replaced by age_hours >= 3
IsStaleAtThreshold(age_hours) == age_hours >= StaleHours

\* if age_hours > 3
IsStale(age_hours) == age_hours > StaleHours

\* the members of set in the order of names
Listing(names, set) == SelectSeq(names, LAMBDA name : name \in set)

\* a row with the given status, as create_task and update_task_status
\* leave it
RowWithStatus(t, status) ==
    CASE status = QUEUED -> NewRow(RequestType(t))
      [] status = RUNNING ->
            UpdatedRow(NewRow(RequestType(t)), RUNNING, "", "")
      [] status = SUCCESS ->
            UpdatedRow(UpdatedRow(NewRow(RequestType(t)), RUNNING, "", ""),
                       SUCCESS, ResultUrl(t), "")
      [] status = FAILED ->
            UpdatedRow(UpdatedRow(NewRow(RequestType(t)), RUNNING, "", ""),
                       FAILED, "", ErrorMsg("ffmpeg"))
      [] OTHER -> NoRecord

\* what a task can look like when the scheduler fires: its row, the hours
\* since completed_at, whether its output file and its cache key are there
SweepProfiles ==
    {[status |-> "absent", hours |-> 0, file |-> TRUE, cached |-> FALSE],
     [status |-> SUCCESS, hours |-> TaskTtlHours - 1, file |-> TRUE,
      cached |-> TRUE],
     [status |-> SUCCESS, hours |-> TaskTtlHours, file |-> TRUE,
      cached |-> TRUE],
     [status |-> FAILED, hours |-> TaskTtlHours + 1, file |-> FALSE,
      cached |-> TRUE]}

\* a loop that an exception of one iteration ends
NextItemsUnlessRaised(items, raised) ==
    IF raised THEN << >> ELSE Tail(items)

\* the try inside the for loop: the loop goes on with the next item
\* whether or not the iteration ended in the inner except
NextItems(items, raised) == Tail(items)

\* the scheduler is about to fire run_all_cleanup
SweepInit ==
    /\ \E profile \in [TaskIds -> SweepProfiles] :
          /\ rec = [t \in TaskIds |-> RowWithStatus(t, profile[t].status)]
          /\ completed_hours = [t \in TaskIds |-> profile[t].hours]
          /\ cache = [t \in TaskIds |->
                        IF profile[t].cached
                        THEN JsonDumps(TaskData(t, RequestType(t)))
                        ELSE None]
          /\ video_output_dir =
                {OutputFilename(t) : t \in {u \in TaskIds : profile[u].file}}
                    \cup {"cover.jpg"}
    /\ tempdir = TempItems
    /\ \E merge_age \in {StaleHours, StaleHours + 1} :
          mtime_hours = [item \in TempItems |->
                           CASE item = "merge_1_a" -> merge_age
                             [] item = "music_2_b" -> StaleHours - 1
                             [] OTHER -> StaleHours + 1]
    /\ cleanup = "idle"
    /\ old_tasks = << >>
    /\ listdir = << >>
    /\ cleanup_log = {}
    /\ removed = {}
    /\ nextId = MaxTasks + 1
    /\ spc = [t \in TaskIds |-> "success"]
    /\ queue = << >>
    /\ wpc = "loop"
    /\ shutdown_event = FALSE
    /\ semaphore = MaxConcurrentWorkers
    /\ upc = [t \in TaskIds |-> "none"]
    /\ utype = [t \in TaskIds |-> None]
    /\ uerr = [t \in TaskIds |-> None]
    /\ dequeueError = FALSE
    /\ pushLog = << >>
    /\ redis_client = "open"
    /\ NoCall
    /\ NoExecutor
    /\ NoDownload

\* a cleanup service that deletes the rows of the tasks past the window
SweepFrameDeletesRows ==
    /\ rec' = [t \in TaskIds |->
                 IF t \in RpcGetOldTasks(rec, completed_hours, TaskTtlHours)
                 THEN NoRecord
                 ELSE rec[t]]
    /\ UNCHANGED <<nextId, spc, queue, wpc, shutdown_event, semaphore, upc,
                   utype, uerr, dequeueError, pushLog, redis_client, cvars,
                   fvars, completed_hours, mtime_hours, evars>>

\* what no step of the cleanup service touches
SweepFrame ==
    UNCHANGED <<nextId, rec, spc, queue, wpc, shutdown_event, semaphore,
                upc, utype, uerr, dequeueError, pushLog, redis_client,
                cvars, fvars, completed_hours, mtime_hours, evars>>

\* what can happen to a file or directory while the pass handles it: "ok",
\* nothing; "gone", another actor removed it after the listing and before
\* the pass tested for it; "vanishes", another actor removed it between
\* that test and the removal by the pass, which then raises
\* FileNotFoundError; "denied", the removal raises another OSError and
\* the file stays
FileOutcomes == {"ok", "gone", "vanishes", "denied"}

\* run_all_cleanup starts cleanup_old_videos: old_tasks = get_old_tasks(
\* hours=settings.task_ttl_hours)
CleanupOldVideos(outcome) ==
    /\ cleanup = "idle"
    /\ cleanup' = "old_videos"
    /\ old_tasks' =
          Listing([i \in 1..MaxTasks |-> i],
                  GetOldTasks(rec, completed_hours, TaskTtlHours, outcome))
    /\ UNCHANGED <<cache, listdir, video_output_dir, tempdir, cleanup_log,
                   removed>>
    /\ SweepFrame

\* one iteration of "for task in old_tasks": remove the file result_url
\* names if it exists, then delete_task_metadata(task_id); an exception
\* ends the iteration in the inner except
CleanupOldVideo(file, ok) ==
    /\ cleanup = "old_videos"
    /\ old_tasks # << >>
    /\ ok => ~CommandRaises(redis_client)
    /\ LET task_id == Head(old_tasks)
           result_url == rec[task_id].result_video_url
           filename == IF result_url # ""
                       THEN VideoNames[LastSegment(result_url)]
                       ELSE ""
           exists == filename \in video_output_dir /\ file # "gone"
           raised == exists /\ file \in {"vanishes", "denied"}
       IN /\ video_output_dir' =
                IF result_url # "" /\ file # "denied"
                THEN video_output_dir \ {filename}
                ELSE video_output_dir
          /\ removed' = IF exists /\ file = "ok"
                        THEN removed \cup {filename}
                        ELSE removed
          /\ cache' = IF ~raised /\ ok
                      THEN [cache EXCEPT ![task_id] = None]
                      ELSE cache
          /\ cleanup_log' = IF raised
                            THEN cleanup_log \cup {StrUUID(task_id)}
                            ELSE cleanup_log
          /\ old_tasks' = NextItems(old_tasks, raised)
    /\ UNCHANGED <<cleanup, listdir, tempdir>>
    /\ SweepFrame

\* cleanup_old_videos returned; cleanup_orphaned_files lists the output
\* directory; when os.listdir raises the outer except ends the pass
CleanupOrphanedFiles(listed) ==
    /\ cleanup = "old_videos"
    /\ old_tasks = << >>
    /\ cleanup' = "orphaned_files"
    /\ IF listed
       THEN /\ listdir' = Listing(VideoNames, video_output_dir)
            /\ UNCHANGED cleanup_log
       ELSE /\ listdir' = << >>
            /\ cleanup_log' = cleanup_log \cup {"cleanup_orphaned_files"}
    /\ UNCHANGED <<cache, old_tasks, video_output_dir, tempdir, removed>>
    /\ SweepFrame

\* one iteration of "for filename in os.listdir(...)": skip what is no
\* .mp4; task_data = get_task(filename.split("_")[0]); if not task_data:
\* getsize and os.remove, which raise when the file is no longer there
CleanupOrphanedFile(ok, file) ==
    /\ cleanup = "orphaned_files"
    /\ listdir # << >>
    /\ LET filename == Head(listdir)
           orphaned == /\ EndsWithMp4(filename)
                       /\ GetTaskRow(rec, FirstField(filename), ok)
                              = NoRecord
           raised == orphaned /\ (file # "ok"
                                    \/ filename \notin video_output_dir)
       IN /\ video_output_dir' =
                IF orphaned /\ file # "denied"
                THEN video_output_dir \ {filename}
                ELSE video_output_dir
          /\ removed' = IF orphaned /\ ~raised
                        THEN removed \cup {filename}
                        ELSE removed
          /\ cleanup_log' = IF raised THEN cleanup_log \cup {filename}
                                      ELSE cleanup_log
          /\ listdir' = NextItems(listdir, raised)
    /\ UNCHANGED <<cleanup, cache, old_tasks, tempdir>>
    /\ SweepFrame

\* cleanup_orphaned_files returned; cleanup_temp_files lists the temp
\* directory; when os.listdir raises the outer except ends the pass
CleanupTempFiles(listed) ==
    /\ cleanup = "orphaned_files"
    /\ listdir = << >>
    /\ cleanup' = "temp_files"
    /\ IF listed
       THEN /\ listdir' = Listing(TempNames, tempdir)
            /\ UNCHANGED cleanup_log
       ELSE /\ listdir' = << >>
            /\ cleanup_log' = cleanup_log \cup {"cleanup_temp_files"}
    /\ UNCHANGED <<cache, old_tasks, video_output_dir, tempdir, removed>>
    /\ SweepFrame

\* one iteration of "for item in os.listdir(temp_dir)": for a name with
\* one of the prefixes that is a directory, shutil.rmtree when its mtime
\* is more than three hours old
CleanupTempItem(file) ==
    /\ cleanup = "temp_files"
    /\ listdir # << >>
    /\ LET item == Head(listdir)
           isdir == IsDir(item) /\ item \in tempdir /\ file # "gone"
           stale == /\ StartsWithPrefix(item)
                    /\ isdir
                    /\ IsStale(mtime_hours[item])
           raised == stale /\ file \in {"vanishes", "denied"}
       IN /\ tempdir' =
                IF (stale /\ file # "denied")
                      \/ (StartsWithPrefix(item) /\ file = "gone")
                THEN tempdir \ {item}
                ELSE tempdir
          /\ removed' = IF stale /\ file = "ok"
                        THEN removed \cup {item}
                        ELSE removed
          /\ cleanup_log' = IF raised THEN cleanup_log \cup {item}
                                      ELSE cleanup_log
          /\ listdir' = NextItems(listdir, raised)
    /\ UNCHANGED <<cleanup, cache, old_tasks, video_output_dir>>
    /\ SweepFrame

\* cleanup_temp_files returned and run_all_cleanup with it
RunAllCleanupEnd ==
    /\ cleanup = "temp_files"
    /\ listdir = << >>
    /\ cleanup' = "done"
    /\ UNCHANGED <<cache, old_tasks, listdir, video_output_dir, tempdir,
                   cleanup_log, removed>>
    /\ SweepFrame

SweepNext ==
    \/ \E outcome \in ListingOutcomes : CleanupOldVideos(outcome)
    \/ \E file \in FileOutcomes, ok \in BOOLEAN : CleanupOldVideo(file, ok)
    \/ \E listed \in BOOLEAN : CleanupOrphanedFiles(listed)
    \/ \E ok \in BOOLEAN, file \in FileOutcomes :
          CleanupOrphanedFile(ok, file)
    \/ \E listed \in BOOLEAN : CleanupTempFiles(listed)
    \/ \E file \in FileOutcomes : CleanupTempItem(file)
    \/ RunAllCleanupEnd

SweepSpec == SweepInit /\ [][SweepNext]_vars


\* ------------------------------------- queue client and cleanup service
\* the API, the worker and the scheduler use the one redis_service: task 1
\* is past the window, with its file and its cache key, the other tasks
\* were created and are about to be enqueued
QueueSweepInit ==
    /\ rec = [t \in TaskIds |->
                RowWithStatus(t, IF t = 1 THEN SUCCESS ELSE QUEUED)]
    /\ completed_hours = [t \in TaskIds |-> IF t = 1 THEN TaskTtlHours ELSE 0]
    /\ cache = [t \in TaskIds |->
                  IF t = 1 THEN JsonDumps(TaskData(t, RequestType(t)))
                           ELSE None]
    /\ video_output_dir = {OutputFilename(1)}
    /\ tempdir = {"merge_1_a"}
    /\ mtime_hours = [item \in TempItems |-> StaleHours + 1]
    /\ cleanup = "idle"
    /\ old_tasks = << >>
    /\ listdir = << >>
    /\ cleanup_log = {}
    /\ removed = {}
    /\ nextId = MaxTasks + 1
    /\ spc = [t \in TaskIds |-> "success"]
    /\ queue = << >>
    /\ wpc = "loop"
    /\ shutdown_event = FALSE
    /\ semaphore = MaxConcurrentWorkers
    /\ upc = [t \in TaskIds |-> "none"]
    /\ utype = [t \in TaskIds |-> None]
    /\ uerr = [t \in TaskIds |-> None]
    /\ dequeueError = FALSE
    /\ pushLog = << >>
    /\ redis_client \in {"open", "lost"}
    /\ NoCall
    /\ NoExecutor
    /\ NoDownload

\* RedisService.enqueue_task(task_id, task_type) called on its own; with
\* the connection lost the first command raises
EnqueueTaskCall(task_id, outcome) ==
    /\ \A i \in 1..Len(pushLog) : pushLog[i] # task_id
    /\ CommandRaises(redis_client) => outcome = "lpush raised"
    /\ EnqueueTask(task_id, RequestType(task_id), outcome)
    /\ call' = "enqueue_task"
    /\ ret' = RetBool(EnqueueResult(outcome))
    /\ UNCHANGED <<nextId, rec, spc, wpc, shutdown_event, semaphore, upc,
                   utype, uerr, dequeueError>>
    /\ UNCHANGED <<redis_client, fvars, svars, evars>>

\* RedisService.delete_task_metadata(task_id): delete(task_key), True;
\* False from the except branch
DeleteTaskMetadataCall(task_id) ==
    /\ call' = "delete_task_metadata"
    /\ IF CommandRaises(redis_client)
       THEN /\ ret' = RetBool(FALSE)
            /\ UNCHANGED cache
       ELSE /\ ret' = RetBool(TRUE)
            /\ cache' = [cache EXCEPT ![task_id] = None]
    /\ UNCHANGED <<nextId, rec, spc, queue, wpc, shutdown_event, semaphore,
                   upc, utype, uerr, dequeueError, pushLog>>
    /\ UNCHANGED <<redis_client, fvars, svars, evars>>

QueueSweepNext ==
    \/ \E t \in TaskIds, o \in EnqueueOutcome : EnqueueTaskCall(t, o)
    \/ DequeueTaskCall
    \/ GetQueueLength
    \/ \E t \in TaskIds : DeleteTaskMetadataCall(t)
    \/ SweepNext

QueueSweepSpec == QueueSweepInit /\ [][QueueSweepNext]_vars

\* ------------------------------------------- one executor run, step by step
\* process_caption_task, process_merge_task, process_background_music_task
\* (workers/processors.py) between the RUNNING write and the return to
\* process_task: disk check, working directory, downloads, transformation,
\* except branch and finally block

\* the fixed buffer of check_disk_space, 100 * 1024 * 1024 bytes, in the
\* unit of MaxFileSizeBytes
SafetyBuffer == 1

\* len(scene_urls) of a merge task
SceneClips == 1

\* the argument each executor passes to check_disk_space
RequiredBytes(task_type) ==
    CASE task_type = "caption" -> MaxFileSizeBytes * 3
      [] task_type = "merge" -> MaxFileSizeBytes * SceneClips * 5
      [] OTHER -> MaxFileSizeBytes * 4

\* check_disk_space: False when available < required_bytes + buffer
CheckDiskSpace(required_bytes) ==
    ~(disk_free < required_bytes + SafetyBuffer)

\* the download_file calls an executor makes when none of them fails
InputFiles(task_type) ==
    CASE task_type = "caption" -> 1
      [] task_type = "merge" -> 2 * SceneClips
      [] OTHER -> 2

\* tempfile.mkdtemp(prefix=f"merge_{task_id}_") and prefix=f"music_.."
Mkdtemp(task_type, t) ==
    (IF task_type = "merge" THEN "merge_" ELSE "music_") \o StrUUID(t) \o "_"

\* positions of a unit inside "async with semaphore", executor steps included
ExecInside == InsideGate \cup {"download", "except", "finally"}

\* what get_disk_space_available can report: 0 (its except branch) and the
\* values on either side of each executor's requirement
DiskChoices ==
    {0} \cup {RequiredBytes(ty) + SafetyBuffer - 1 : ty \in TaskType}
        \cup {RequiredBytes(ty) + SafetyBuffer : ty \in TaskType}

\* the loop handed one envelope per task to process_task; task 1's envelope
\* names its type or a string that is no TaskType
ExecInit ==
    /\ nextId = MaxTasks + 1
    /\ rec = [t \in TaskIds |-> NewRow(RequestType(t))]
    /\ spc = [t \in TaskIds |-> "success"]
    /\ queue = << >>
    /\ cache = [t \in TaskIds |-> None]
    /\ wpc = "loop"
    /\ shutdown_event = FALSE
    /\ semaphore = MaxConcurrentWorkers
    /\ upc = [t \in TaskIds |-> "launched"]
    /\ \E first \in {RequestType(1), UnknownType} :
          utype = [t \in TaskIds |->
                     IF t = 1 THEN first ELSE RequestType(t)]
    /\ uerr = [t \in TaskIds |-> None]
    /\ dequeueError = FALSE
    /\ pushLog = << >>
    /\ redis_client = "open"
    /\ NoCall
    /\ NoDownload
    /\ NoCleanup
    /\ disk_free \in DiskChoices
    /\ temp_dir = [t \in TaskIds |-> Unbound]
    /\ output_path = [t \in TaskIds |-> None]
    /\ temp_entries = [t \in TaskIds |-> {}]
    /\ downloads = [t \in TaskIds |-> 0]
    /\ escaped = [t \in TaskIds |-> None]

\* what no step of an executor touches
ExecutorFrame ==
    UNCHANGED <<nextId, spc, queue, cache, wpc, shutdown_event, utype,
                dequeueError, pushLog, redis_client, cvars, fvars, cleanup,
                old_tasks, listdir, tempdir, completed_hours, mtime_hours,
                cleanup_log, disk_free>>

\* if not check_disk_space(..): raise Exception("Insufficient disk space");
\* then, in the merge and music executors, temp_dir = tempfile.mkdtemp(..)
ExecutorDiskCheck(t) ==
    /\ upc[t] = "inputs"
    /\ IF CheckDiskSpace(RequiredBytes(utype[t]))
       THEN /\ upc' = [upc EXCEPT ![t] = "download"]
            /\ IF utype[t] = "caption"
               THEN UNCHANGED <<temp_dir, temp_entries>>
               ELSE /\ temp_dir' =
                         [temp_dir EXCEPT ![t] = Mkdtemp(utype[t], t)]
                    /\ temp_entries' =
                         [temp_entries EXCEPT ![t] = @ \cup {"temp_dir"}]
            /\ UNCHANGED uerr
       ELSE /\ upc' = [upc EXCEPT ![t] = "except"]
            /\ uerr' = [uerr EXCEPT ![t] = "Insufficient disk space"]
            /\ UNCHANGED <<temp_dir, temp_entries>>
    /\ UNCHANGED <<rec, semaphore, video_output_dir, removed, output_path,
                   downloads, escaped>>
    /\ ExecutorFrame

\* what one download_file call can do: return with the file written, raise
\* with nothing at output_path, or raise with a partial file left there
DownloadOutcome == {"ok", "DownloadError", "interrupted"}

\* one await download_file(url, path) of the executor
ExecutorDownload(t, outcome) ==
    /\ upc[t] = "download"
    /\ downloads' = [downloads EXCEPT ![t] = @ + 1]
    /\ temp_entries' =
         [temp_entries EXCEPT
            ![t] = IF outcome = "DownloadError" THEN @ ELSE @ \cup {"input"}]
    /\ IF outcome = "ok"
       THEN /\ upc' = [upc EXCEPT
                 ![t] = IF downloads[t] + 1 = InputFiles(utype[t])
                        THEN "transform"
                        ELSE "download"]
            /\ UNCHANGED uerr
       ELSE /\ upc' = [upc EXCEPT ![t] = "except"]
            /\ uerr' = [uerr EXCEPT ![t] = "DownloadError"]
    /\ UNCHANGED <<rec, semaphore, video_output_dir, removed, temp_dir,
                   output_path, escaped>>
    /\ ExecutorFrame

\* what the transformation can do: return with the result file written,
\* raise before output_path is assigned (whisper, merge_video_audio), raise
\* after it with no result file, or raise with a partial result file
TransformSteps == {"ok", "before output", "no output", "partial output"}

\* the external transformation, output_path = join(video_output_dir, ..)
\* on the way, and update_task_status(task_id, SUCCESS, ..) after it
ExecutorTransform(t, outcome, ok) ==
    /\ upc[t] = "transform"
    /\ output_path' =
         [output_path EXCEPT
            ![t] = IF outcome = "before output" THEN @ ELSE OutputFilename(t)]
    /\ video_output_dir' =
         IF outcome \in {"ok", "partial output"}
         THEN video_output_dir \cup {OutputFilename(t)}
         ELSE video_output_dir
    /\ IF outcome = "ok"
       THEN /\ rec' = UpdateTaskStatus(rec, t, ok, SUCCESS, ResultUrl(t), "")
            /\ upc' = [upc EXCEPT ![t] = "finally"]
            /\ UNCHANGED uerr
       ELSE /\ upc' = [upc EXCEPT ![t] = "except"]
            /\ uerr' = [uerr EXCEPT ![t] = "FFmpegError"]
            /\ UNCHANGED rec
    /\ UNCHANGED <<semaphore, removed, temp_dir, temp_entries, downloads,
                   escaped>>
    /\ ExecutorFrame

\* an except branch that leaves the result file where it is
ExecutorExceptKeepsOutput(t, ok) ==
    /\ upc[t] = "except"
    /\ rec' = UpdateTaskStatus(rec, t, ok, FAILED, "", ErrorMsg(uerr[t]))
    /\ upc' = [upc EXCEPT ![t] = "finally"]
    /\ UNCHANGED <<semaphore, uerr, video_output_dir, removed, temp_dir,
                   output_path, temp_entries, downloads, escaped>>
    /\ ExecutorFrame

\* except Exception as e: update_task_status(task_id, FAILED, ..);
\* if output_path and os.path.exists(output_path): os.remove(output_path)
ExecutorExcept(t, ok) ==
    /\ upc[t] = "except"
    /\ rec' = UpdateTaskStatus(rec, t, ok, FAILED, "", ErrorMsg(uerr[t]))
    /\ IF output_path[t] # None /\ output_path[t] \in video_output_dir
       THEN /\ video_output_dir' = video_output_dir \ {output_path[t]}
            /\ removed' = removed \cup {output_path[t]}
       ELSE UNCHANGED <<video_output_dir, removed>>
    /\ upc' = [upc EXCEPT ![t] = "finally"]
    /\ UNCHANGED <<semaphore, uerr, temp_dir, output_path, temp_entries,
                   downloads, escaped>>
    /\ ExecutorFrame

\* a process_task that acquires the gate without "async with": an error
\* that leaves the executor skips the release
ExecutorFinallyKeepsSlot(t) ==
    /\ upc[t] = "finally"
    /\ IF utype[t] # "caption" /\ temp_dir[t] = Unbound
       THEN /\ escaped' = [escaped EXCEPT ![t] = "UnboundLocalError"]
            /\ UNCHANGED <<temp_entries, semaphore>>
       ELSE /\ temp_entries' = [temp_entries EXCEPT ![t] = {}]
            /\ semaphore' = semaphore + 1
            /\ UNCHANGED escaped
    /\ upc' = [upc EXCEPT ![t] = "done"]
    /\ UNCHANGED <<rec, uerr, video_output_dir, removed, temp_dir,
                   output_path, downloads>>
    /\ ExecutorFrame

\* finally: cleanup_temp_files(..), which removes the files it is given and
\* swallows every error; in the merge and music executors then
\* "if temp_dir and os.path.exists(temp_dir): shutil.rmtree(temp_dir,
\* ignore_errors=True)", where reading a temp_dir that no statement has
\* assigned raises UnboundLocalError; the executor returns or raises into
\* process_task, whose "async with semaphore" releases the slot and whose
\* except branch logs the error
ExecutorFinally(t) ==
    /\ upc[t] = "finally"
    /\ IF utype[t] = "caption"
       THEN /\ temp_entries' = [temp_entries EXCEPT ![t] = @ \ {"input"}]
            /\ UNCHANGED escaped
       ELSE IF temp_dir[t] = Unbound
            THEN /\ escaped' = [escaped EXCEPT ![t] = "UnboundLocalError"]
                 /\ UNCHANGED temp_entries
            ELSE /\ temp_entries' = [temp_entries EXCEPT ![t] = {}]
                 /\ UNCHANGED escaped
    /\ upc' = [upc EXCEPT ![t] = "done"]
    /\ semaphore' = semaphore + 1
    /\ UNCHANGED <<rec, uerr, video_output_dir, removed, temp_dir,
                   output_path, downloads>>
    /\ ExecutorFrame

ExecNext ==
    \/ \E t \in TaskIds, found \in BOOLEAN, ok \in BOOLEAN :
          ProcessTask(t, found, ok)
    \/ \E t \in TaskIds, ok \in BOOLEAN : Acquire(t, ok)
    \/ \E t \in TaskIds : ExecutorDiskCheck(t)
    \/ \E t \in TaskIds, o \in DownloadOutcome : ExecutorDownload(t, o)
    \/ \E t \in TaskIds, o \in TransformSteps, ok \in BOOLEAN :
          ExecutorTransform(t, o, ok)
    \/ \E t \in TaskIds, ok \in BOOLEAN : ExecutorExcept(t, ok)
    \/ \E t \in TaskIds : ExecutorFinally(t)

ExecSpec == ExecInit /\ [][ExecNext]_vars

TypeOK ==
    /\ nextId \in 1..(MaxTasks + 1)
    /\ semaphore \in 0..MaxConcurrentWorkers
    /\ wpc \in {"startup", "loop", "brpop", "disconnect", "exited"}
    /\ \A t \in TaskIds : rec[t] = NoRecord \/ rec[t].status \in TaskStatus


\* ================================================================ claims
HasRecord(t) == rec[t] # NoRecord
Pushed == {pushLog[i] : i \in 1..Len(pushLog)}
Dequeued == {t \in TaskIds : upc[t] # "none"}
Running == {t \in TaskIds : upc[t] \in InsideGate}

\* C1: the status of a task record changes only along QUEUED->RUNNING,
\* RUNNING->SUCCESS or RUNNING->FAILED, and never leaves SUCCESS or FAILED.
AllowedTransitions ==
    {<<QUEUED, RUNNING>>, <<RUNNING, SUCCESS>>, <<RUNNING, FAILED>>}
C1_StatusTransitions ==
    [][\A t \in TaskIds :
          (HasRecord(t) /\ rec'[t].status # rec[t].status)
             => <<rec[t].status, rec'[t].status>> \in AllowedTransitions]_vars

\* C2: in every task record completed_at is present iff the status is SUCCESS
\* or FAILED, the result reference is present iff the status is SUCCESS, and
\* the error text is present iff the status is FAILED.
C2_RecordFields ==
    \A t \in TaskIds :
        HasRecord(t) =>
            /\ rec[t].completed_at <=> rec[t].status \in {SUCCESS, FAILED}
            /\ rec[t].result_video_url # "" <=> rec[t].status = SUCCESS
            /\ rec[t].error_message # "" <=> rec[t].status = FAILED
C2_Witness ==
    /\ \E t \in TaskIds : HasRecord(t) /\ rec[t].status = SUCCESS
    /\ \E t \in TaskIds : HasRecord(t) /\ rec[t].status = FAILED

\* C3: the number of executor runs inside the gate never exceeds
\* max_concurrent_workers, however many envelopes were dispatched.
C3_GateBound == Cardinality(Running) <= MaxConcurrentWorkers
C3_Witness ==
    /\ Cardinality(Running) = MaxConcurrentWorkers
    /\ \E t \in TaskIds : upc[t] = "gate"

\* C4: the queue is FIFO: the k-th envelope dequeued is the k-th envelope
\* whose push completed, whatever the task types.
C4_Fifo ==
    [][\A t \in TaskIds :
          (upc[t] = "none" /\ upc'[t] = "launched")
             => /\ Cardinality(Dequeued) < Len(pushLog)
                /\ pushLog[Cardinality(Dequeued) + 1] = t]_vars
C4_Witness ==
    /\ Len(pushLog) >= 2
    /\ upc[pushLog[1]] = "launched"
    /\ upc[pushLog[2]] = "none"
    /\ utype[pushLog[1]] # rec[pushLog[2]].task_type
    /\ Len(queue) = Len(pushLog) - 1

\* C5: a dequeue that empties a queue holding the one envelope of the last
\* enqueue returns the task_id and the task_type that were enqueued.
C5_RoundTrip ==
    [][(Len(queue) = 1 /\ Len(queue') = 0)
          => LET t == pushLog[Len(pushLog)]
             IN /\ upc[t] = "none"
                /\ upc'[t] = "launched"
                /\ utype'[t] = rec[t].task_type]_vars
C5_Witness ==
    \E t \in TaskIds :
        /\ queue = << >>
        /\ upc[t] = "launched"
        /\ utype[t] = "merge"
        /\ spc[t] = "success"

\* C6: after an enqueue call either both writes took effect and it returned
\* success, or it returned failure and the envelope was put in neither the
\* queue nor the cache.
C6_EnqueueAtomic ==
    \A t \in TaskIds :
        /\ spc[t] = "success" => (t \in Pushed /\ cache[t] # None)
        /\ spc[t] = "failure" => (t \notin Pushed /\ cache[t] = None)

\* C7: the dispatch loop is left only at its loop test with the shutdown
\* flag set; a dequeue call that fails is logged and the loop goes on.
InLoop == wpc \in {"loop", "brpop"}
C7_LoopExitsOnlyOnShutdown ==
    [][(InLoop /\ wpc' \notin {"loop", "brpop"})
          => (wpc = "loop" /\ shutdown_event)]_vars
C7_Witness ==
    /\ wpc = "loop"
    /\ dequeueError
    /\ ~shutdown_event

\* C8: an executor run in which the fetcher or the transformation raised
\* ends with the record FAILED and a non-empty error text.
C8_ErrorsBecomeFailed ==
    \A t \in TaskIds :
        (upc[t] = "done" /\ uerr[t] # None)
            => (rec[t].status = FAILED /\ rec[t].error_message # "")

\* C9: no executor run that has ended (without the process terminating)
\* leaves its record RUNNING.
C9_RunningReachesTerminal ==
    \A t \in TaskIds : upc[t] = "done" => rec[t].status # RUNNING

\* C10: the dispatch loop never waits for an executor: with an envelope in
\* the queue the dequeue goes ahead whatever the units and the gate do.
C10_LoopNeverWaits ==
    (wpc = "brpop" /\ queue # << >>) => ENABLED DequeueTask
C10_Witness ==
    /\ wpc = "brpop"
    /\ ~shutdown_event
    /\ semaphore = 0
    /\ Cardinality(Running) = MaxConcurrentWorkers
    /\ \E t \in TaskIds : upc[t] \in {"launched", "gate"}

\* C11: once the shutdown flag is set no new iteration of the dispatch loop
\* starts (the iteration under way is the last one that can dequeue), the
\* loop goes on to the disconnect without waiting for the units in flight,
\* and worker_loop has closed the Redis client when it returns.
C11_ShutdownStops ==
    [][/\ (shutdown_event /\ wpc = "loop") => wpc' \in {"loop", "disconnect"}
       /\ (shutdown_event /\ Dequeued' # Dequeued) => wpc = "brpop"
       /\ wpc = "disconnect" => ENABLED Disconnect
       /\ wpc' = "exited" => redis_client' # "open"]_vars
C11_Witness ==
    /\ wpc = "exited"
    /\ shutdown_event
    /\ redis_client = "closed"
    /\ queue # << >>
    /\ \E t \in TaskIds : upc[t] = "cancelled"

\* C12: a unit whose get_task found no record is dropped: it logs, starts no
\* executor, takes no gate slot and writes nothing to the record store,
\* in that step and ever after.
C12_AbsentRecordDropped ==
    [][\A t \in TaskIds :
          uerr'[t] = NotFound
             => /\ upc'[t] = "dropped"
                /\ rec'[t] = rec[t]
                /\ uerr[t] # NotFound => semaphore' = semaphore]_vars
C12_Witness ==
    \E t \in TaskIds :
        /\ upc[t] = "dropped"
        /\ uerr[t] = NotFound
        /\ rec[t] = NoRecord
        /\ utype[t] \in TaskType

\* C13: for an envelope whose task_type is no known task kind no executor
\* is run and the record of the task is never written.
C13_UnknownTypeUntouched ==
    [][\A t \in TaskIds :
          utype[t] \notin TaskType
             => (rec'[t] = rec[t] /\ upc'[t] \notin InsideGate)]_vars
C13_Witness ==
    \E t \in TaskIds :
        /\ utype[t] = UnknownType
        /\ upc[t] = "done"
        /\ HasRecord(t)
        /\ rec[t].status = QUEUED

\* C14: dequeue_task on a list that stayed empty for the timeout returns None,
\* does not raise, and leaves the list as it was.
C14_DequeueTimeoutNone ==
    [][(call' = "dequeue_task" /\ queue = << >>)
          => (ret' = RetNone /\ queue' = << >>)]_vars
C14_Witness ==
    /\ call = "dequeue_task"
    /\ redis_client = "open"
    /\ queue = << >>
    /\ ret = RetNone

\* C15: get_queue_length on a client that was never connected or has lost
\* its connection returns 0 and does not raise.
C15_QueueLengthDisconnected ==
    [][(call' = "get_queue_length" /\ redis_client # "open")
          => ret' = RetInt(0)]_vars
C15_Witness ==
    /\ call = "get_queue_length"
    /\ redis_client = None
    /\ queue # << >>
    /\ ret = RetInt(0)

\* the last entry of responses: what the latest download attempt was answered
Attempts == Len(responses)
LastResponse == responses[Len(responses)]
\* the Expires parameter of url is a Unix timestamp before now
ExpiresInPast == \E n \in 0..(Now - 1) : url_expires = ToString(n)

\* C16: when the size probe finds a size over the limit, download_file
\* raises FileSizeLimitExceeded at once: no streaming GET, no byte and no
\* file at the destination, no retry and no wait.
C16_ProbeOverLimit ==
    file_size > MaxFileSizeBytes
        => /\ fpc = "raised"
           /\ error = Exc("FileSizeLimitExceeded", ProbeTooLargeMsg)
           /\ responses = << >>
           /\ output_file = NoFile
           /\ attempt = 0
           /\ backoff = << >>
C16_Witness ==
    /\ file_size = MaxFileSizeBytes + 1
    /\ ~skip_size_check
    /\ fpc = "raised"

C18_NoRetryOnTerminal ==
    (Attempts >= 1
       /\ \/ LastResponse.body = "too large"
          \/ LastResponse.status = 404
          \/ (LastResponse.status = 403 /\ ExpiresInPast))
        => /\ fpc = "raised"
           /\ Len(backoff) = Attempts - 1
           /\ attempt = Attempts - 1
C18_Witness ==
    /\ Attempts = 1
    /\ LastResponse.status = 404
    /\ fpc = "raised"
    /\ backoff = << >>

\* the sum of the elements of a sequence of numbers
RECURSIVE Sum(_)
Sum(seq) == IF seq = << >> THEN 0 ELSE Head(seq) + Sum(Tail(seq))
\* 2^0 + ... + 2^k
RECURSIVE SumPow(_)
SumPow(k) == IF k < 0 THEN 0 ELSE 2 ^ k + SumPow(k - 1)

\* C19: against a server that answers 500 to the first N-1 attempts and 200
\* with a good body to attempt N (N <= max_retries), download_file has not
\* given up before attempt N, returns, and has waited at least
\* 2^0 + ... + 2^(N-2) in all.
C19_RetryThenSuccess ==
    \A N \in 1..MaxRetries :
        /\ (/\ Attempts = N - 1
            /\ Attempts >= 1
            /\ \A i \in 1..Attempts : responses[i].status = 500)
              => fpc # "raised"
        /\ (/\ Attempts = N
            /\ \A i \in 1..(N - 1) : responses[i].status = 500
            /\ responses[N] = [status |-> 200, body |-> "complete"])
              => /\ fpc = "returned"
                 /\ error = NoError
                 /\ Sum(backoff) >= SumPow(N - 2)
C19_Witness ==
    /\ Attempts = MaxRetries
    /\ \A i \in 1..(MaxRetries - 1) : responses[i].status = 500
    /\ responses[MaxRetries] = [status |-> 200, body |-> "complete"]
    /\ fpc = "returned"
    /\ output_file = MaxFileSizeBytes

\* C20: a 403 on a URL whose Expires is a past timestamp ends the call on
\* that attempt, without a wait after it, with the DownloadError whose
\* message gives the expiry time computed from Expires.
C20_ExpiredUrl ==
    (Attempts >= 1 /\ LastResponse.status = 403 /\ ExpiresInPast)
        => /\ fpc = "raised"
           /\ error = Exc("DownloadError",
                          ExpiredMsg("URL expired on "
                                     \o Strftime(IntOf(url_expires))
                                     \o " UTC"))
           /\ Len(backoff) = Attempts - 1
C20_Witness ==
    /\ Attempts = 2
    /\ LastResponse.status = 403
    /\ responses[1].status = 500
    /\ url_expires = "1"
    /\ fpc = "raised"
    /\ backoff = <<1>>

\* every streaming GET made so far was answered 403
AllDenied == \A i \in 1..Attempts : responses[i].status = 403

\* C21: when every attempt is answered 403 and the Expires parameter of the
\* URL is absent or not in the past, download_file does not raise before
\* its attempt number MaxRetries, and after that attempt it raises
\* DownloadError with the access denied message.
C21_DeniedExhaustsAttempts ==
    (Attempts >= 1 /\ AllDenied /\ ~ExpiresInPast) =>
        /\ fpc \notin {"returned", "body"}
        /\ fpc = "raised" =>
              /\ Attempts = MaxRetries
              /\ error = Exc("DownloadError", DeniedMsg)
        /\ Attempts = MaxRetries => fpc = "raised"
        /\ Attempts < MaxRetries => fpc \in {"for", "get"}

C21_Witness ==
    /\ url_expires = "3"
    /\ AllDenied
    /\ Attempts = MaxRetries
    /\ fpc = "raised"
    /\ error = Exc("DownloadError", DeniedMsg)
    /\ backoff = <<1, 2>>

\* C22: download_file ends, for every sequence of responses, after at most
\* MaxRetries streaming GETs, and the sleep that follows failed attempt i
\* (counted from 0) lasts 2^i seconds.
C22_TerminatesWithBackoff ==
    /\ [](/\ Attempts <= MaxRetries
          /\ attempt <= MaxRetries
          /\ Len(backoff) = attempt
          /\ \A i \in 0..(Len(backoff) - 1) : backoff[i + 1] = 2 ^ i)
    /\ <>(fpc \in {"returned", "raised"})

C22_Witness ==
    /\ fpc = "returned"
    /\ Attempts = MaxRetries
    /\ responses[1].status = NoResponse
    /\ responses[2].body = "interrupted"
    /\ backoff = <<1, 2>>

\* C23: whenever download_file raises, no file is left at output_path,
\* also when a network error interrupts the body of the last attempt after
\* some chunks were written.
C23_NoPartialFile == fpc = "raised" => output_file = NoFile

\* C24: when the request check_file_size relies on is answered with success
\* and carries neither content-length nor content-range, the probe gives 0
\* and raises nothing, and download_file goes on to the streaming GET,
\* where the size check made after every chunk is the one that applies.
C24_NoSizeHeader ==
    [][(size_header = None /\ size_header' = "missing") =>
          /\ file_size' = 0
          /\ fpc' = "get"
          /\ error' = NoError
          /\ responses' = << >>]_vars

C24_Witness ==
    /\ size_header = "missing"
    /\ Attempts = 1
    /\ fpc = "raised"
    /\ error = Exc("FileSizeLimitExceeded", TooLargeMsg)
    /\ downloaded_size > MaxFileSizeBytes

\* cleanup_old_videos has gone through its list
ExpiredPassOver == cleanup = "old_videos" /\ old_tasks = << >>

\* C25: with the retention window TaskTtlHours, once cleanup_old_videos is
\* over the output file and the cache key of every terminal task completed
\* TaskTtlHours hours ago or earlier are gone, and those of every terminal
\* task completed later are as they were, however the listing call of the
\* record store ended.
C25_RetentionWindow ==
    ExpiredPassOver =>
        \A t \in TerminalTasks(rec) :
            IF completed_hours[t] >= TaskTtlHours
            THEN /\ OutputFilename(t) \notin video_output_dir
                 /\ cache[t] = None
            ELSE /\ OutputFilename(t) \notin removed
                 /\ cache[t] # None

\* C26: in cleanup_orphaned_files a file named {task_id}_{suffix}.mp4 is
\* removed when the record store has no row for task_id, and a file whose
\* row exists is not removed by the pass, also when the lookup of the row
\* fails.
C26_OrphanPass ==
    [][(cleanup = "orphaned_files" /\ listdir # << >>
            /\ EndsWithMp4(Head(listdir))) =>
          LET filename == Head(listdir)
          IN IF HasRecord(ParseUUID(FirstField(filename)))
             THEN filename \in removed' => filename \in removed
             ELSE filename \in video_output_dir' =>
                     filename \in cleanup_log']_vars

\* the working directories of executors: the directories of the temp
\* directory whose name starts with one of the prefixes
WorkingDirs == {item \in TempItems : StartsWithPrefix(item) /\ IsDir(item)}

\* cleanup_temp_files has gone through its list, which os.listdir gave
TempPassOver ==
    /\ cleanup \in {"temp_files", "done"}
    /\ listdir = << >>
    /\ "cleanup_temp_files" \notin cleanup_log

\* C27: cleanup_temp_files removes every working directory of an executor
\* whose mtime is more than StaleHours hours old, whatever the status of
\* its task (when rmtree raises, the directory is in the log instead), and
\* it never removes one whose mtime is StaleHours hours old or less.
C27_StaleTempDirs ==
    \A item \in WorkingDirs :
        /\ (TempPassOver /\ mtime_hours[item] > StaleHours) =>
              item \notin tempdir \/ item \in cleanup_log
        /\ mtime_hours[item] <= StaleHours => item \notin removed

C27_Witness ==
    /\ cleanup = "done"
    /\ removed \cap TempItems = {"merge_1_a"}
    /\ tempdir = TempItems \ {"merge_1_a"}
    /\ mtime_hours["merge_1_a"] = StaleHours + 1
    /\ \E t \in TaskIds : HasRecord(t) /\ rec[t].status = SUCCESS

\* the names of the three passes, as the outer except branches log them
PassNames == {"cleanup_orphaned_files", "cleanup_temp_files"}

\* C28: an iteration that ends in the inner except does not end its pass
\* (the loop goes on with the items that follow), a pass that ends in its
\* outer except is followed by the next pass, which does its work, and
\* run_all_cleanup can always take its next step until it is at its end.
C28_FailuresDoNotAbort ==
    /\ [][/\ ((cleanup_log' \ cleanup_log) \ PassNames # {}) =>
              (/\ cleanup' = cleanup
               /\ (old_tasks # << >> => old_tasks' = Tail(old_tasks))
               /\ (listdir # << >> => listdir' = Tail(listdir)))
          /\ ("cleanup_orphaned_files" \in cleanup_log' \ cleanup_log) =>
              (cleanup' = "orphaned_files" /\ listdir' = << >>)
          /\ ("cleanup_temp_files" \in cleanup_log' \ cleanup_log) =>
              (cleanup' = "temp_files" /\ listdir' = << >>)]_vars
    /\ [](cleanup \notin {"idle", "done"} => ENABLED SweepNext)
    /\ []((cleanup = "done" /\ "cleanup_orphaned_files" \in cleanup_log
               /\ "cleanup_temp_files" \notin cleanup_log) =>
             \A item \in WorkingDirs :
                mtime_hours[item] > StaleHours =>
                    item \notin tempdir \/ item \in cleanup_log)

C28_Witness ==
    /\ cleanup = "done"
    /\ "cleanup_orphaned_files" \in cleanup_log
    /\ \E t \in TaskIds :
          /\ StrUUID(t) \in cleanup_log
          /\ \E u \in TaskIds : u > t /\ OutputFilename(u) \in removed
    /\ "merge_1_a" \in removed

ItemAtHand ==
    CASE cleanup = "old_videos" /\ old_tasks # << >> ->
            {OutputFilename(Head(old_tasks))}
      [] cleanup \in {"orphaned_files", "temp_files"} /\ listdir # << >> ->
            {Head(listdir)}
      [] OTHER -> {}

\* C30: when another actor removes a file or a working directory after the
\* pass listed it and before the pass is done with it, the pass goes on
\* with the items that follow, and nothing but that one item leaves the
\* output directory or the temp directory in that iteration.
C30_VanishedIsBenign ==
    [][LET left == (video_output_dir \ video_output_dir')
                      \cup (tempdir \ tempdir')
       IN left \ removed' # {} =>
             /\ cleanup' = cleanup
             /\ (old_tasks # << >> => old_tasks' = Tail(old_tasks))
             /\ (listdir # << >> => listdir' = Tail(listdir))
             /\ left \subseteq ItemAtHand
             /\ removed' = removed]_vars

C30_Witness ==
    /\ cleanup = "done"
    /\ \E t, u \in TaskIds :
          /\ t < u
          /\ OutputFilename(t) \notin video_output_dir \cup removed
          /\ StrUUID(t) \in cleanup_log
          /\ HasRecord(u)
          /\ OutputFilename(u) \in removed
    /\ "merge_1_a" \notin tempdir \cup removed
    /\ cleanup_log \cap PassNames = {}

\* C39: download_file returns only with the file at output_path, holding
\* the bytes counted and no more than max_file_size_bytes of them,
\* whatever the server answered.
C39_ReturnedWithinLimit ==
    fpc = "returned" =>
        /\ output_file # NoFile
        /\ output_file = downloaded_size
        /\ output_file <= MaxFileSizeBytes
        /\ error = NoError

C39_Witness ==
    /\ fpc = "returned"
    /\ output_file = MaxFileSizeBytes
    /\ size_header = "missing"
    /\ Attempts = 2
    /\ responses[1].body = "interrupted"

\* C40: download_file sleeps between attempts only: it never sleeps more
\* than MaxRetries - 1 times, and when it has raised it has slept fewer
\* times than it made attempts.
C40_WaitsOnlyBetweenAttempts ==
    /\ Len(backoff) <= MaxRetries - 1
    /\ (fpc = "raised" /\ Attempts >= 1) => Len(backoff) < Attempts

\* C31: once an executor run has gone through its except branch (the run
\* that ends in FAILED), no result file of that task is in the output
\* directory, whether the transformation wrote none, or a partial one.
C31_NoResultFileAfterFailure ==
    \A t \in TaskIds :
        (/\ upc[t] \in {"finally", "done"}
         /\ (uerr[t] # None \/ rec[t].status = FAILED)) =>
            OutputFilename(t) \notin video_output_dir

C31_Witness ==
    \E t \in TaskIds :
        /\ upc[t] = "done"
        /\ rec[t].status = FAILED
        /\ uerr[t] = "FFmpegError"
        /\ OutputFilename(t) \in removed
        /\ OutputFilename(t) \notin video_output_dir

\* C32: after every executor run nothing of the run is left in the temp
\* directory and no error left the cleanup step, also when the run failed
\* before its working directory was created.
C32_CleanupLeavesNothing ==
    \A t \in TaskIds :
        upc[t] = "done" =>
            /\ temp_entries[t] = {}
            /\ escaped[t] = None

\* C33: an executor that finds the disk space below its requirement plus
\* the buffer ends with the record FAILED and without a download started.
C33_LowDiskFailsBeforeDownload ==
    \A t \in TaskIds :
        (/\ upc[t] = "done"
         /\ utype[t] \in TaskType
         /\ ~CheckDiskSpace(RequiredBytes(utype[t]))) =>
            /\ rec[t].status = FAILED
            /\ downloads[t] = 0

\* C34: the steps of an executor come in order: no download and no
\* transformation for a task still recorded as QUEUED, the transformation
\* only after every download returned, the SUCCESS write only after the
\* transformation wrote the result.
C34_StepsInOrder ==
    [][\A t \in TaskIds :
          /\ (downloads'[t] > downloads[t] => rec[t].status # QUEUED)
          /\ ((upc[t] = "transform" /\ upc'[t] # "transform") =>
                 /\ rec[t].status # QUEUED
                 /\ downloads[t] = InputFiles(utype[t]))
          /\ ((rec'[t].status = SUCCESS /\ rec[t].status # SUCCESS) =>
                 /\ upc[t] = "transform"
                 /\ OutputFilename(t) \in video_output_dir')]_vars

\* C38: the free slots of the gate and the units inside it add up to
\* max_concurrent_workers at every moment, so every exit from an executor,
\* by return or by an error out of its finally block, gave its slot back.
C38_SlotsBalance ==
    semaphore + Cardinality({t \in TaskIds : upc[t] \in ExecInside})
        = MaxConcurrentWorkers

C38_Witness ==
    /\ \E t \in TaskIds :
          /\ upc[t] = "done"
          /\ escaped[t] = "UnboundLocalError"
    /\ \E t \in TaskIds :
          /\ upc[t] = "done"
          /\ utype[t] = UnknownType
    /\ \A t \in TaskIds : upc[t] \notin ExecInside
    /\ semaphore = MaxConcurrentWorkers

\* C35: the worker dequeues only after its startup completed: while the
\* gate is not constructed no envelope has left the queue and the loop is
\* not running; a startup that fails goes to the shutdown path with the
\* queue and the units untouched; a startup that completes leaves a gate of
\* exactly max_concurrent_workers free slots and an open queue client.
GateConstructed ==
    semaphore + Cardinality(Running) = MaxConcurrentWorkers
C35_NoDequeueBeforeStartup ==
    /\ [](~GateConstructed =>
             /\ Dequeued = {}
             /\ wpc \in {"startup", "disconnect", "exited"})
    /\ [][/\ (Len(queue') < Len(queue)) =>
                (wpc = "brpop" /\ GateConstructed /\ redis_client = "open")
          /\ (wpc = "startup" /\ wpc' \notin {"startup", "loop"}) =>
                (/\ wpc' = "disconnect"
                 /\ semaphore' = 0
                 /\ queue' = queue
                 /\ upc' = upc)
          /\ (wpc = "startup" /\ wpc' = "loop") =>
                (/\ semaphore' = MaxConcurrentWorkers
                 /\ redis_client' = "open")]_vars

C35_Witness ==
    /\ wpc = "exited"
    /\ ~GateConstructed
    /\ redis_client = "closed"
    /\ Len(queue) = MaxTasks
    /\ Dequeued = {}

\* C36: every task is executed at most once: its id is pushed at most once,
\* the queue never holds two envelopes of one id, a dequeue takes the
\* envelope it returns out of the queue, a unit is launched only for a task
\* that had none, and an executor starts only from a launched unit that
\* has not run one.
NoDuplicates(seq) ==
    \A i, j \in 1..Len(seq) : seq[i] = seq[j] => i = j
EnvelopeIds(q) ==
    [i \in 1..Len(q) |-> ParseUUID(JsonLoads(q[i]).task_id)]
InQueue(t, q) == \E i \in 1..Len(q) : EnvelopeIds(q)[i] = t
C36_AtMostOnce ==
    /\ [](NoDuplicates(pushLog) /\ NoDuplicates(EnvelopeIds(queue)))
    /\ [][\A t \in TaskIds :
            /\ (upc'[t] = "launched" /\ upc[t] # "launched") =>
                  (/\ upc[t] = "none"
                   /\ InQueue(t, queue)
                   /\ ~InQueue(t, queue')
                   /\ Len(queue') = Len(queue) - 1)
            /\ (upc'[t] = "inputs" /\ upc[t] # "inputs") =>
                  upc[t] \in {"launched", "gate"}
            /\ (upc[t] # "none") => (upc'[t] # "none")]_vars

C36_Witness ==
    /\ Len(pushLog) = MaxTasks
    /\ queue = << >>
    /\ \A t \in TaskIds : upc[t] = "done" /\ rec[t].status = SUCCESS

\* C37: every QUEUED record has its envelope in the queue or a dispatched
\* unit that is still pending, also after a submission whose enqueue
\* returned failure.
C37_NoStrandedQueued ==
    \A t \in TaskIds :
        (HasRecord(t) /\ rec[t].status = QUEUED) =>
            (InQueue(t, queue) \/ upc[t] \in InFlight)

====
